---- MODULE Spec2Model ----
(***************************************************************************)
(* A model of doc_digest (GRAFF): the persistence layer                    *)
(* (src/src/db/connection.py), the two-phase generation pipeline           *)
(* (src/src/services/llm_client.py, graff_orchestrator.py) and the         *)
(* progress log of the job API (src/src/app.py).                           *)
(*                                                                         *)
(* Strings that are formatted, compared or sorted by the program (ids,     *)
(* unit ids) are sequences of one-character strings; Python's None is the  *)
(* one-element sequence None, which is no such string.  Strings that are   *)
(* only stored and compared for equality are TLA+ strings.                 *)
(***************************************************************************)
EXTENDS Integers, Sequences, FiniteSets, TLC

VARIABLES
    db,                \* the committed content of graff.db, one sequence of rows per table
    lastOp,            \* the last persistence call and what it returned
    lastSaved,         \* per chapter id, the analysis of the last Save that returned True
    run,               \* the locals of one run_phase_2 call and its position
    job,               \* per job id, the background task's position and locals
    progress_tracker,  \* per job id, the list of progress events (app.py line 30)
    reader,            \* the locals of one stream_progress generator and its position
    savers             \* per thread, the position and locals of a save_chapter_analysis call

vars == <<db, lastOp, lastSaved, run, job, progress_tracker, reader, savers>>

-----------------------------------------------------------------------------
(* Bounds of the model *)

\* the lower layer may fail at any one statement of a transaction up to this index
MaxFailAt == 3

\* chapter B is saved with the first MaxKindsB kinds of engine answers
MaxKindsB == 2

-----------------------------------------------------------------------------
(* Strings *)

None == <<"<None>">>
EmptyStr == <<>>

\* Python truthiness of an Optional[str]: None and "" are falsy
Truthy(s) == s # None /\ s # EmptyStr

\* byte value of the characters the model uses (BINARY collation compares bytes)
CharCode(ch) ==
    CASE ch = "." -> 46
      [] ch = "0" -> 48 [] ch = "1" -> 49 [] ch = "2" -> 50 [] ch = "3" -> 51
      [] ch = "4" -> 52 [] ch = "5" -> 53 [] ch = "6" -> 54 [] ch = "7" -> 55
      [] ch = "8" -> 56 [] ch = "9" -> 57
      [] ch = "A" -> 65 [] ch = "B" -> 66
      [] ch = "_" -> 95
      [] ch = "p" -> 112 [] ch = "t" -> 116

RECURSIVE StrLess(_, _)
\* a < b for two strings, as SQLite's ORDER BY on a TEXT column decides it
StrLess(a, b) ==
    IF b = <<>> THEN FALSE
    ELSE IF a = <<>> THEN TRUE
    ELSE IF CharCode(Head(a)) # CharCode(Head(b))
         THEN CharCode(Head(a)) < CharCode(Head(b))
         ELSE StrLess(Tail(a), Tail(b))

DigitChar(d) == <<"0", "1", "2", "3", "4", "5", "6", "7", "8", "9">>[d + 1]

RECURSIVE Decimal(_)
\* str(n) for n >= 0
Decimal(n) == IF n < 10 THEN <<DigitChar(n)>>
              ELSE Decimal(n \div 10) \o <<DigitChar(n % 10)>>

\* f"{n:03d}": at least three digits, zero padded
Pad3(n) ==
    LET d == Decimal(n)
    IN  IF Len(d) >= 3 THEN d
        ELSE IF Len(d) = 2 THEN <<"0">> \o d
        ELSE <<"0", "0">> \o d

\* f"{chapter_id}_{section.unit_id}_p{idx:03d}"
PropositionIdFmt(chapter_id, unit_id, idx) ==
    chapter_id \o <<"_">> \o unit_id \o <<"_", "p">> \o Pad3(idx)

\* f"{chapter_id}_t{idx:03d}"
TakeawayIdFmt(chapter_id, idx) ==
    chapter_id \o <<"_", "t">> \o Pad3(idx)

SeqToSet(s) == {s[i] : i \in 1..Len(s)}

RECURSIVE Flatten(_)
\* the concatenation of a sequence of sequences
Flatten(ss) == IF ss = <<>> THEN <<>> ELSE Head(ss) \o Flatten(Tail(ss))

-----------------------------------------------------------------------------
(* The data model (src/src/models.py) *)

PropositionBloom == {"remember", "understand", "apply", "analyze"}
TakeawayBloom == {"analyze", "evaluate"}
\* dominant_bloom_level = None
NoBloom == "<None>"

Section(unit_id, title, level, parent_unit_id) ==
    [unit_id |-> unit_id, title |-> title, level |-> level,
     parent_unit_id |-> parent_unit_id,
     start_location |-> None, end_location |-> None]

Entity(name, type) == [name |-> name, type |-> type]

Proposition(proposition_id, chapter_id, unit_id, text, bloom_level, tags) ==
    [proposition_id |-> proposition_id, chapter_id |-> chapter_id,
     unit_id |-> unit_id, proposition_text |-> text,
     bloom_level |-> bloom_level, bloom_verb |-> "verb",
     evidence_location |-> "loc", source_type |-> "explicit", tags |-> tags]

KeyTakeaway(takeaway_id, chapter_id, unit_id, text, proposition_ids, dominant_bloom_level, tags) ==
    [takeaway_id |-> takeaway_id, chapter_id |-> chapter_id,
     unit_id |-> unit_id, text |-> text, proposition_ids |-> proposition_ids,
     dominant_bloom_level |-> dominant_bloom_level, tags |-> tags]

Phase1Comprehension(summary, sections, key_entities, keywords) ==
    [summary |-> summary, sections |-> sections,
     key_entities |-> key_entities, keywords |-> keywords]

Phase2Output(propositions, key_takeaways, notes) ==
    [propositions |-> propositions, key_takeaways |-> key_takeaways, notes |-> notes]

ChapterAnalysis(book_id, chapter_id, chapter_title, phase1, phase2) ==
    [schema_version |-> "1.0", book_id |-> book_id, chapter_id |-> chapter_id,
     chapter_title |-> chapter_title, phase1 |-> phase1, phase2 |-> phase2]

\* load_chapter_analysis returns None
NotFound == [not_found |-> TRUE]

-----------------------------------------------------------------------------
(* The database: schema.sql is not among the sources; the tables are those *)
(* the statements of connection.py name, the keys and cascades those of    *)
(* the specification (section 6, "Persistence boundary").                  *)

TableNames == {"chapters", "sections", "entities", "keywords", "propositions",
               "proposition_tags", "key_takeaways", "takeaway_propositions",
               "takeaway_tags"}

EmptyDb == [t \in TableNames |-> <<>>]

\* get_connection: conn.execute("PRAGMA foreign_keys = ON")
ForeignKeysOff == FALSE
ForeignKeysOn == TRUE

Rows(d, table) == SeqToSet(d[table])

ChapterExists(d, chapter_id) ==
    \E r \in Rows(d, "chapters") : r.chapter_id = chapter_id

\* the PRIMARY KEY / UNIQUE and FOREIGN KEY constraints an INSERT must meet
ConstraintsHold(d, table, row) ==
    LET fk(ok) == ForeignKeysOn => ok
    IN  CASE table = "chapters" ->
               ~ChapterExists(d, row.chapter_id)
          [] table \in {"sections", "entities", "keywords"} ->
               fk(ChapterExists(d, row.chapter_id))
          [] table = "propositions" ->
               /\ \A r \in Rows(d, "propositions") : r.id # row.id
               /\ fk(ChapterExists(d, row.chapter_id))
          [] table = "proposition_tags" ->
               fk(\E r \in Rows(d, "propositions") : r.id = row.proposition_id)
          [] table = "key_takeaways" ->
               /\ \A r \in Rows(d, "key_takeaways") : r.id # row.id
               /\ fk(ChapterExists(d, row.chapter_id))
          [] table = "takeaway_propositions" ->
               /\ fk(\E r \in Rows(d, "key_takeaways") : r.id = row.takeaway_id)
               /\ fk(\E r \in Rows(d, "propositions") : r.id = row.proposition_id)
          [] table = "takeaway_tags" ->
               fk(\E r \in Rows(d, "key_takeaways") : r.id = row.takeaway_id)

\* the WHERE clause of delete_chapter: WHERE chapter_id = ?
DeleteWhereAny(row, chapter_id) == TRUE
DeleteWhere(row, chapter_id) == row.chapter_id = chapter_id

\* DELETE FROM chapters WHERE chapter_id = ?, with ON DELETE CASCADE on every
\* table that references the chapter row, a proposition or a takeaway
DeleteFromChapters(d, chapter_id) ==
    LET keepCh(r) == ~DeleteWhere(r, chapter_id)
        props == SelectSeq(d["propositions"], keepCh)
        tks == SelectSeq(d["key_takeaways"], keepCh)
        propIds == {r.id : r \in SeqToSet(props)}
        tkIds == {r.id : r \in SeqToSet(tks)}
        keepP(r) == r.proposition_id \in propIds
        keepT(r) == r.takeaway_id \in tkIds
        keepTP(r) == r.takeaway_id \in tkIds /\ r.proposition_id \in propIds
    IN  IF ForeignKeysOn
        THEN [chapters |-> SelectSeq(d["chapters"], keepCh),
              sections |-> SelectSeq(d["sections"], keepCh),
              entities |-> SelectSeq(d["entities"], keepCh),
              keywords |-> SelectSeq(d["keywords"], keepCh),
              propositions |-> props,
              proposition_tags |-> SelectSeq(d["proposition_tags"], keepP),
              key_takeaways |-> tks,
              takeaway_propositions |-> SelectSeq(d["takeaway_propositions"], keepTP),
              takeaway_tags |-> SelectSeq(d["takeaway_tags"], keepT)]
        ELSE [d EXCEPT !["chapters"] = SelectSeq(d["chapters"], keepCh)]

InsertInto(d, table, row) == [d EXCEPT ![table] = Append(d[table], row)]

Insert(table, row) == [op |-> "insert", table |-> table, row |-> row]
DeleteStmt(chapter_id) == [op |-> "delete_chapter", chapter_id |-> chapter_id]

-----------------------------------------------------------------------------
(* save_chapter_analysis *)

\* lines 78-87: every proposition's unit_id is a section's
PropositionUnitsValid(chapter) ==
    LET valid_unit_ids == {s.unit_id : s \in SeqToSet(chapter.phase1.sections)}
    IN  \A p \in SeqToSet(chapter.phase2.propositions) : p.unit_id \in valid_unit_ids

\* lines 89-94: "if takeaway.unit_id and takeaway.unit_id not in valid_unit_ids"
TakeawayUnitsValid(chapter) ==
    LET valid_unit_ids == {s.unit_id : s \in SeqToSet(chapter.phase1.sections)}
    IN  \A t \in SeqToSet(chapter.phase2.key_takeaways) :
            ~(Truthy(t.unit_id) /\ t.unit_id \notin valid_unit_ids)

\* lines 96-103: every id of a takeaway's proposition_ids is a proposition's
TakeawayPropositionsValid(chapter) ==
    LET valid_prop_ids == {p.proposition_id : p \in SeqToSet(chapter.phase2.propositions)}
    IN  \A t \in SeqToSet(chapter.phase2.key_takeaways) :
            \A pid \in SeqToSet(t.proposition_ids) : pid \in valid_prop_ids

\* no ValueError is raised before the first statement
SaveValidationPasses(chapter) ==
    /\ PropositionUnitsValid(chapter)
    /\ TakeawayUnitsValid(chapter)
    /\ TakeawayPropositionsValid(chapter)

PropositionStatements(prop) ==
    <<Insert("propositions",
             [id |-> prop.proposition_id, chapter_id |-> prop.chapter_id,
              unit_id |-> prop.unit_id, proposition_text |-> prop.proposition_text,
              bloom_level |-> prop.bloom_level, bloom_verb |-> prop.bloom_verb,
              evidence_location |-> prop.evidence_location,
              source_type |-> prop.source_type])>>
    \o [i \in 1..Len(prop.tags) |->
           Insert("proposition_tags",
                  [proposition_id |-> prop.proposition_id, tag |-> prop.tags[i]])]

TakeawayStatements(takeaway) ==
    <<Insert("key_takeaways",
             [id |-> takeaway.takeaway_id, chapter_id |-> takeaway.chapter_id,
              unit_id |-> takeaway.unit_id, text |-> takeaway.text,
              dominant_bloom_level |-> takeaway.dominant_bloom_level])>>
    \o [i \in 1..Len(takeaway.proposition_ids) |->
           Insert("takeaway_propositions",
                  [takeaway_id |-> takeaway.takeaway_id,
                   proposition_id |-> takeaway.proposition_ids[i]])]
    \o [i \in 1..Len(takeaway.tags) |->
           Insert("takeaway_tags",
                  [takeaway_id |-> takeaway.takeaway_id, tag |-> takeaway.tags[i]])]

\* the write statements of one Save, in the order the code executes them
\* the statements that follow the existence check of lines 106-107, whose
\* result is existing
SaveStatementsAfterCheck(existing, chapter) ==
    LET c == chapter.chapter_id
        p1 == chapter.phase1
        p2 == chapter.phase2
    IN  (IF existing THEN <<DeleteStmt(c)>> ELSE <<>>)
        \o <<Insert("chapters",
                    [book_id |-> chapter.book_id, chapter_id |-> c,
                     chapter_title |-> chapter.chapter_title,
                     summary |-> p1.summary,
                     schema_version |-> chapter.schema_version])>>
        \o [i \in 1..Len(p1.sections) |->
               Insert("sections",
                      [chapter_id |-> c, unit_id |-> p1.sections[i].unit_id,
                       title |-> p1.sections[i].title, level |-> p1.sections[i].level,
                       parent_unit_id |-> p1.sections[i].parent_unit_id,
                       start_location |-> p1.sections[i].start_location,
                       end_location |-> p1.sections[i].end_location])]
        \o [i \in 1..Len(p1.key_entities) |->
               Insert("entities",
                      [chapter_id |-> c, name |-> p1.key_entities[i].name,
                       type |-> p1.key_entities[i].type])]
        \o [i \in 1..Len(p1.keywords) |->
               Insert("keywords", [chapter_id |-> c, keyword |-> p1.keywords[i]])]
        \o Flatten([i \in 1..Len(p2.propositions) |-> PropositionStatements(p2.propositions[i])])
        \o Flatten([i \in 1..Len(p2.key_takeaways) |-> TakeawayStatements(p2.key_takeaways[i])])

\* the statements of a Save that runs alone on the database d
SaveStatements(d, chapter) ==
    SaveStatementsAfterCheck(ChapterExists(d, chapter.chapter_id), chapter)

RECURSIVE RunStatements(_, _, _, _, _)
\* cursor.execute of stmts[i..] on the open transaction tx, of which n
\* statements have taken effect; the lower layer fails at statement failAt
\* (0: nowhere).  A failing DELETE is caught inside delete_chapter, which
\* returns False, and Save goes on (line 111 drops the result); a failing
\* INSERT raises out of the try block.
RunStatements(tx, stmts, i, n, failAt) ==
    IF i > Len(stmts) THEN [ok |-> TRUE, db |-> tx, writes |-> n]
    ELSE LET st == stmts[i]
         IN  IF st.op = "delete_chapter"
             THEN IF i = failAt
                  THEN RunStatements(tx, stmts, i + 1, n, failAt)
                  ELSE RunStatements(DeleteFromChapters(tx, st.chapter_id),
                                     stmts, i + 1, n + 1, failAt)
             ELSE IF i # failAt /\ ConstraintsHold(tx, st.table, st.row)
                  THEN RunStatements(InsertInto(tx, st.table, st.row),
                                     stmts, i + 1, n + 1, failAt)
                  ELSE [ok |-> FALSE, db |-> tx, writes |-> n]

\* conn.commit(): the transaction's content becomes the database
Commit(before, tx) == tx

\* conn.rollback() mutated into a commit of the statements executed so far
RollbackKeepsWrites(before, tx) == tx
\* conn.rollback(): the database is what it was before the transaction
Rollback(before, tx) == before

\* what one call of save_chapter_analysis returns and leaves in the database
SaveOutcome(d, chapter, failAt) ==
    IF ~SaveValidationPasses(chapter)
    THEN [ok |-> FALSE, db |-> Rollback(d, d), writes |-> 0, validated |-> FALSE]
    ELSE LET r == CHOOSE x \in {RunStatements(d, stmts, 1, 0, failAt) :
                                    stmts \in {SaveStatements(d, chapter)}} : TRUE
         IN  IF r.ok
             THEN [ok |-> TRUE, db |-> Commit(d, r.db), writes |-> r.writes,
                   validated |-> TRUE]
             ELSE [ok |-> FALSE, db |-> Rollback(d, r.db), writes |-> r.writes,
                   validated |-> TRUE]

-----------------------------------------------------------------------------
(* delete_chapter called on its own (conn is None): its own connection,   *)
(* commit on success, rollback and False on an exception                  *)

DeleteOutcome(d, chapter_id, fails) ==
    IF fails THEN [ok |-> FALSE, db |-> Rollback(d, d)]
    ELSE [ok |-> TRUE, db |-> Commit(d, DeleteFromChapters(d, chapter_id))]

-----------------------------------------------------------------------------
(* load_chapter_analysis *)

\* ORDER BY level, unit_id
SectionRowLess(a, b) ==
    \/ a.level < b.level
    \/ a.level = b.level /\ StrLess(a.unit_id, b.unit_id)

\* ORDER BY id
IdRowLess(a, b) == StrLess(a.id, b.id)

\* ORDER BY unit_id, id
UnitIdRowLess(a, b) ==
    \/ StrLess(a.unit_id, b.unit_id)
    \/ a.unit_id = b.unit_id /\ StrLess(a.id, b.id)

RowLess(order, a, b) ==
    IF order = "level, unit_id" THEN SectionRowLess(a, b)
    ELSE IF order = "unit_id, id" THEN UnitIdRowLess(a, b)
    ELSE IdRowLess(a, b)

RECURSIVE InsertSorted(_, _, _)
InsertSorted(order, x, sorted) ==
    IF sorted = <<>> THEN <<x>>
    ELSE IF RowLess(order, x, Head(sorted)) THEN <<x>> \o sorted
    ELSE <<Head(sorted)>> \o InsertSorted(order, x, Tail(sorted))

RECURSIVE OrderBy(_, _)
\* the rows in the order of the ORDER BY clause, rows with equal keys in rowid order
OrderBy(order, rows) ==
    IF rows = <<>> THEN <<>>
    ELSE InsertSorted(order, rows[Len(rows)], OrderBy(order, SubSeq(rows, 1, Len(rows) - 1)))

\* SELECT ... WHERE chapter_id = ? (rowid order)
WhereChapter(d, table, chapter_id) ==
    LET keep(r) == r.chapter_id = chapter_id IN SelectSeq(d[table], keep)

PropositionTagsOf(d, id) ==
    LET keep(r) == r.proposition_id = id
        rows == SelectSeq(d["proposition_tags"], keep)
    IN  [i \in 1..Len(rows) |-> rows[i].tag]

TakeawayTagsOf(d, id) ==
    LET keep(r) == r.takeaway_id = id
        rows == SelectSeq(d["takeaway_tags"], keep)
    IN  [i \in 1..Len(rows) |-> rows[i].tag]

TakeawayPropositionIdsOf(d, id) ==
    LET keep(r) == r.takeaway_id = id
        rows == SelectSeq(d["takeaway_propositions"], keep)
    IN  [i \in 1..Len(rows) |-> rows[i].proposition_id]

LoadSections(d, chapter_id) ==
    LET rows == OrderBy("level, unit_id", WhereChapter(d, "sections", chapter_id))
    IN  [i \in 1..Len(rows) |->
            [unit_id |-> rows[i].unit_id, title |-> rows[i].title,
             level |-> rows[i].level, parent_unit_id |-> rows[i].parent_unit_id,
             start_location |-> rows[i].start_location,
             end_location |-> rows[i].end_location]]

LoadPropositions(d, chapter_id) ==
    LET rows == OrderBy("id", WhereChapter(d, "propositions", chapter_id))
    IN  [i \in 1..Len(rows) |->
            [proposition_id |-> rows[i].id, chapter_id |-> rows[i].chapter_id,
             unit_id |-> rows[i].unit_id,
             proposition_text |-> rows[i].proposition_text,
             bloom_level |-> rows[i].bloom_level, bloom_verb |-> rows[i].bloom_verb,
             evidence_location |-> rows[i].evidence_location,
             source_type |-> rows[i].source_type,
             tags |-> PropositionTagsOf(d, rows[i].id)]]

LoadTakeaways(d, chapter_id) ==
    LET rows == OrderBy("id", WhereChapter(d, "key_takeaways", chapter_id))
    IN  [i \in 1..Len(rows) |->
            [takeaway_id |-> rows[i].id, chapter_id |-> rows[i].chapter_id,
             unit_id |-> rows[i].unit_id, text |-> rows[i].text,
             proposition_ids |-> TakeawayPropositionIdsOf(d, rows[i].id),
             dominant_bloom_level |-> rows[i].dominant_bloom_level,
             tags |-> TakeawayTagsOf(d, rows[i].id)]]

\* load_chapter_analysis(chapter_id): None when there is no chapter row
Load(d, chapter_id) ==
    LET chs == WhereChapter(d, "chapters", chapter_id)
    IN  IF chs = <<>> THEN NotFound
        ELSE LET ents == WhereChapter(d, "entities", chapter_id)
                 kws == WhereChapter(d, "keywords", chapter_id)
             IN  [schema_version |-> chs[1].schema_version,
                  book_id |-> chs[1].book_id,
                  chapter_id |-> chs[1].chapter_id,
                  chapter_title |-> chs[1].chapter_title,
                  phase1 |->
                      [summary |-> chs[1].summary,
                       sections |-> LoadSections(d, chapter_id),
                       key_entities |-> [i \in 1..Len(ents) |->
                                            [name |-> ents[i].name, type |-> ents[i].type]],
                       keywords |-> [i \in 1..Len(kws) |-> kws[i].keyword]],
                  phase2 |->
                      [propositions |-> LoadPropositions(d, chapter_id),
                       key_takeaways |-> LoadTakeaways(d, chapter_id),
                       notes |-> None]]

-----------------------------------------------------------------------------
(* run_phase_2 (src/src/services/llm_client.py): the pure parts *)

CHUNK_SIZE == 3000

\* lines 224-227: the number of generation calls for a section of w words
\* the ceiling division mutated to the floor
NumChunksFloor(section_word_count) == section_word_count \div CHUNK_SIZE

\* lines 223-226: one call if the section has at most CHUNK_SIZE words
NumChunks(section_word_count) ==
    IF section_word_count > CHUNK_SIZE
    THEN (section_word_count + CHUNK_SIZE - 1) \div CHUNK_SIZE
    ELSE 1

\* Proposition.model_validate: bloom_level is a PropositionBloom literal
PropositionValidatesAny(raw) == TRUE
PropositionValidates(raw) == raw.bloom_level \in PropositionBloom

\* KeyTakeaway.model_validate: dominant_bloom_level is None or a TakeawayBloom literal
TakeawayValidates(raw) ==
    raw.dominant_bloom_level = NoBloom \/ raw.dominant_bloom_level \in TakeawayBloom

\* lines 294/358: every item of a "propositions" array validates
PropositionsValidate(response) ==
    \A i \in 1..Len(response) : PropositionValidates(response[i])

\* line 459: every item of a "key_takeaways" array validates
TakeawaysValidate(response) ==
    \A i \in 1..Len(response) : TakeawayValidates(response[i])

\* the renumbering mutated to keep the ids the engine assigned
KeepEngineIds(chapter_id, section, section_props) == section_props
\* lines 362-366: for idx, prop in enumerate(section_props, start=1)
RenumberSection(chapter_id, section, section_props) ==
    [idx \in 1..Len(section_props) |->
        [section_props[idx] EXCEPT
            !.proposition_id = PropositionIdFmt(chapter_id, section.unit_id, idx)]]

\* the takeaway renumbering mutated to keep the ids the engine assigned
KeepEngineTakeawayIds(chapter_id, all_takeaways) == all_takeaways
\* lines 466-468: for idx, takeaway in enumerate(all_takeaways, start=1)
RenumberTakeaways(chapter_id, all_takeaways) ==
    [idx \in 1..Len(all_takeaways) |->
        [all_takeaways[idx] EXCEPT !.takeaway_id = TakeawayIdFmt(chapter_id, idx)]]

\* the grouping mutated: every section is given all propositions
PropsOfAllSections(all_propositions, unit_id) == all_propositions

\* lines 385-393: props_by_section.get(section.unit_id, [])
PropsBySection(all_propositions, unit_id) ==
    LET keep(p) == p.unit_id = unit_id IN SelectSeq(all_propositions, keep)

-----------------------------------------------------------------------------
(* The generation engine: what a call may return.  The engine numbers its  *)
(* items from 1 in every call and may echo any chapter or unit id.         *)

ChapterIds == {<<"A">>, <<"B">>}
\* the chapter id of the prompt's example, which the engine sometimes echoes
ExampleChapterId == <<"0", "1">>

Unit1 == <<"1">>
Unit11 == <<"1", ".", "1">>
Unit2 == <<"2">>
\* a unit id that is no section's
UnitForeign == <<"9">>

P1Single ==
    Phase1Comprehension("summary one", <<Section(Unit1, "Intro", 1, None)>>, <<>>, <<>>)
P1Nested ==
    Phase1Comprehension("summary two",
        <<Section(Unit1, "Intro", 1, None), Section(Unit11, "Detail", 2, Unit1),
          Section(Unit2, "Methods", 1, None)>>,
        <<Entity("Paramount", "studio")>>, <<"integration">>)
P1Duplicate ==
    Phase1Comprehension("summary three",
        <<Section(Unit1, "Intro", 1, None), Section(Unit1, "Intro", 1, None)>>,
        <<>>, <<>>)

\* what the structure call may return (Phase1Comprehension.model_validate passed)
Phase1Results == {P1Single, P1Nested, P1Duplicate}

\* one proposition as the engine returns it, numbered idx within its call
EngineProposition(idx, unit_echo, bloom_level) ==
    Proposition(PropositionIdFmt(ExampleChapterId, unit_echo, idx), ExampleChapterId,
                unit_echo, "fact", bloom_level, IF idx = 1 THEN <<"tag">> ELSE <<>>)

\* the "propositions" arrays an extraction call for `section` may return
ExtractionResponses(section) ==
    << <<>>,
       <<EngineProposition(1, section.unit_id, "remember")>>,
       <<EngineProposition(1, section.unit_id, "remember"),
         EngineProposition(2, section.unit_id, "apply")>>,
       <<EngineProposition(1, UnitForeign, "understand")>>,
       <<EngineProposition(1, section.unit_id, "evaluate")>> >>

NumExtractionResponses == Len(ExtractionResponses(Section(Unit1, "", 1, None)))

\* one takeaway as the engine returns it
EngineTakeaway(idx, unit_echo, proposition_ids, bloom) ==
    KeyTakeaway(TakeawayIdFmt(ExampleChapterId, idx), ExampleChapterId, unit_echo,
                "insight", proposition_ids, bloom, <<"theme">>)

IdsOf(section_props) == [i \in 1..Len(section_props) |-> section_props[i].proposition_id]

\* the "key_takeaways" arrays a synthesis call for `section`, given its
\* propositions, may return
SynthesisResponses(section, section_props) ==
    LET ids == IdsOf(section_props)
        missing == <<PropositionIdFmt(ExampleChapterId, UnitForeign, 1)>>
    IN  << <<>>,
           <<EngineTakeaway(1, section.unit_id, ids, "analyze")>>,
           <<EngineTakeaway(1, section.unit_id, ids, "analyze"),
             EngineTakeaway(2, None, <<ids[1]>>, NoBloom)>>,
           <<EngineTakeaway(1, EmptyStr, ids, "evaluate")>>,
           <<EngineTakeaway(1, UnitForeign, ids, "analyze")>>,
           <<EngineTakeaway(1, section.unit_id, missing, "analyze")>>,
           <<EngineTakeaway(1, section.unit_id, <<>>, "analyze")>>,
           <<EngineTakeaway(1, section.unit_id, ids, "create")>> >>

NumSynthesisResponses ==
    Len(SynthesisResponses(Section(Unit1, "", 1, None), <<EngineProposition(1, Unit1, "apply")>>))

-----------------------------------------------------------------------------
(* digest_chapter_graff (src/src/services/graff_orchestrator.py): the pure *)
(* parts                                                                   *)

\* the corrective overwrite mutated away: the engine's chapter_id is kept
KeepEngineChapterIds(chapter_id, items) == items
\* lines 111-119: prop.chapter_id = chapter_id / takeaway.chapter_id = chapter_id
CorrectChapterIds(chapter_id, items) ==
    [i \in 1..Len(items) |-> [items[i] EXCEPT !.chapter_id = chapter_id]]

\* lines 137-144: the assembled analysis
Assemble(book_id, chapter_id, chapter_title, phase1, all_propositions, all_takeaways) ==
    ChapterAnalysis(book_id, chapter_id, chapter_title, phase1,
        Phase2Output(CorrectChapterIds(chapter_id, all_propositions),
                     CorrectChapterIds(chapter_id, all_takeaways), None))

\* run_phase_2 when every section is short (one call each) and the engine
\* gives its kx-th kind of answer to every extraction call and its ks-th kind
\* to every synthesis call, or raises in the first call of the pass `raises`
\* names: whether it returned, the pass that failed, and the lists built
UniformPhase2(chapter_id, phase1, kx, ks, raises) ==
    LET secs == phase1.sections
        rx(i) == ExtractionResponses(secs[i])[kx]
        extraction_ok ==
            /\ raises # "extraction"
            /\ \A i \in 1..Len(secs) : PropositionsValidate(rx(i))
        all_propositions ==
            IF extraction_ok
            THEN Flatten([i \in 1..Len(secs) |-> RenumberSection(chapter_id, secs[i], rx(i))])
            ELSE <<>>
        sp(i) == PropsBySection(all_propositions, secs[i].unit_id)
        rs(i) == IF sp(i) = <<>> THEN <<>> ELSE SynthesisResponses(secs[i], sp(i))[ks]
        synthesis_ok ==
            \/ \A i \in 1..Len(secs) : sp(i) = <<>>
            \/ /\ raises # "synthesis"
               /\ \A i \in 1..Len(secs) : TakeawaysValidate(rs(i))
    IN  [ok |-> extraction_ok /\ synthesis_ok,
         failed_in |-> IF ~extraction_ok THEN "extraction"
                       ELSE IF ~synthesis_ok THEN "synthesis" ELSE "none",
         propositions |-> all_propositions,
         key_takeaways |->
             IF extraction_ok /\ synthesis_ok
             THEN RenumberTakeaways(chapter_id, Flatten([i \in 1..Len(secs) |-> rs(i)]))
             ELSE <<>>]

ChA == <<"A">>
ChB == <<"B">>

\* the runs whose analyses are saved: chapter A with every kind of answer of
\* the engine, chapter B (there to show that chapters do not touch each
\* other) and the duplicated section list with the first MaxKindsB kinds
StoreScripts ==
    ({ChA} \X {P1Nested} \X (1..NumExtractionResponses) \X (1..NumSynthesisResponses))
    \cup ({ChA} \X {P1Duplicate} \X (1..MaxKindsB) \X (1..MaxKindsB))
    \cup ({ChB} \X {P1Single} \X (1..MaxKindsB) \X (1..MaxKindsB))

\* the analyses a pipeline run can hand to save_chapter_analysis
AssembledAnalyses ==
    { Assemble("book", q[1], "title", q[2],
               UniformPhase2(q[1], q[2], q[3], q[4], "none").propositions,
               UniformPhase2(q[1], q[2], q[3], q[4], "none").key_takeaways) :
        q \in { q \in StoreScripts : UniformPhase2(q[1], q[2], q[3], q[4], "none").ok } }

-----------------------------------------------------------------------------
(* The persistence layer as a state machine: Save and Delete calls *)

\* the analysis breaks a reference rule of the data model (invariants 1-3):
\* a proposition's unit_id, a takeaway's unit_id that is not None, or an id of
\* a takeaway's proposition_ids names no section / proposition of the analysis
DanglingReference(chapter) ==
    LET units == {x.unit_id : x \in SeqToSet(chapter.phase1.sections)}
        pids == {x.proposition_id : x \in SeqToSet(chapter.phase2.propositions)}
    IN  \/ \E x \in SeqToSet(chapter.phase2.propositions) : x.unit_id \notin units
        \/ \E x \in SeqToSet(chapter.phase2.key_takeaways) :
               \/ x.unit_id # None /\ x.unit_id \notin units
               \/ \E pid \in SeqToSet(x.proposition_ids) : pid \notin pids

NoOp == [kind |-> "none"]
NoAnalysis == [not_saved |-> TRUE]

\* run_phase_2 not called
Phase2Idle == [pc |-> "idle"]
\* no job submitted: progress_tracker = {} and no background task
JobIds == {"job1", "job2"}
\* phase1 and chapter before they are assigned
NoPhase1 == [not_run |-> TRUE]
NoChapter == [not_assembled |-> TRUE]
JobIdle == [pc |-> "idle", chapter_id |-> None, phase1 |-> NoPhase1,
            propositions |-> <<>>, key_takeaways |-> <<>>, chapter |-> NoChapter,
            stages |-> <<>>, succeeded |-> <<>>, phase_failure |-> "none",
            error |-> "none", error_phase |-> "none", listed |-> {}, saves |-> 0,
            bad_bloom |-> FALSE]
NoJobs == [j \in JobIds |-> JobIdle]
NoProgress == [j \in JobIds |-> <<>>]
\* no progress stream requested
ReaderIdle == [pc |-> "idle"]
\* the threads that call save_chapter_analysis at the same time
SaverIds == {1, 2}
SaverIdle == [pc |-> "idle", chapter |-> NoChapter, existing |-> FALSE, tx |-> EmptyDb,
              ok |-> FALSE, busy |-> FALSE, calls |-> 0]
NoSavers == [p \in SaverIds |-> SaverIdle]

InitStore ==
    /\ db = EmptyDb
    /\ lastOp = NoOp
    /\ lastSaved = [c \in ChapterIds |-> NoAnalysis]
    /\ run = Phase2Idle
    /\ job = NoJobs
    /\ progress_tracker = NoProgress
    /\ reader = ReaderIdle
    /\ savers = NoSavers

\* save_chapter_analysis(chapter); the lower layer fails at statement failAt
Save(chapter, failAt) ==
    LET out == SaveOutcome(db, chapter, failAt)
    IN  /\ db' = out.db
        /\ lastOp' = [kind |-> "save", chapter_id |-> chapter.chapter_id,
                      ok |-> out.ok, validated |-> out.validated,
                      wrote |-> out.writes > 0,
                      existed |-> ChapterExists(db, chapter.chapter_id),
                      replaced |-> /\ lastSaved[chapter.chapter_id] # NoAnalysis
                                   /\ lastSaved[chapter.chapter_id] # chapter,
                      dangling |-> DanglingReference(chapter)]
        /\ lastSaved' = IF out.ok THEN [lastSaved EXCEPT ![chapter.chapter_id] = chapter]
                        ELSE lastSaved
        /\ UNCHANGED <<run, job, progress_tracker, reader, savers>>

\* delete_chapter_endpoint: 404 "not found" if delete_chapter returned False
DeleteEndpointStatus(success) == IF ~success THEN "404" ELSE "200"

RECURSIVE SumLen(_, _)
SumLen(d, tables) ==
    IF tables = {} THEN 0
    ELSE LET t == CHOOSE t \in tables : TRUE
         IN  Len(d[t]) + SumLen(d, tables \ {t})
\* the number of rows in the database
RowCount(d) == SumLen(d, TableNames)

\* delete_chapter(chapter_id)
Delete(chapter_id, fails) ==
    LET out == DeleteOutcome(db, chapter_id, fails)
    IN  /\ db' = out.db
        /\ lastOp' = [kind |-> "delete", chapter_id |-> chapter_id, ok |-> out.ok,
                      existed |-> ChapterExists(db, chapter_id),
                      removed |-> RowCount(db) - RowCount(out.db),
                      status |-> DeleteEndpointStatus(out.ok)]
        /\ lastSaved' = IF out.ok THEN [lastSaved EXCEPT ![chapter_id] = NoAnalysis]
                        ELSE lastSaved
        /\ UNCHANGED <<run, job, progress_tracker, reader, savers>>

NextStore ==
    \/ \E chapter \in AssembledAnalyses, failAt \in 0..MaxFailAt : Save(chapter, failAt)
    \/ \E chapter_id \in ChapterIds, fails \in BOOLEAN : Delete(chapter_id, fails)

SpecStore == InitStore /\ [][NextStore]_vars

-----------------------------------------------------------------------------
(* Properties of the persistence layer *)

\* the rows one accepted analysis puts into a table
RowsOf(chapter, table) ==
    LET stmts == SaveStatements(EmptyDb, chapter)
    IN  {stmts[i].row : i \in {j \in 1..Len(stmts) : stmts[j].table = table}}

StoredChapters == {c \in ChapterIds : lastSaved[c] # NoAnalysis}

\* C1: a Save of an analysis with a dangling reference (a proposition's
\* unit_id, a takeaway's non-null unit_id or a takeaway's proposition id that
\* names nothing of the analysis) reports failure, has executed no write and
\* leaves the store, and so every Load, as before the call.
C1_DanglingSaveWritesNothing ==
    [][(lastOp'.kind = "save" /\ lastOp'.dangling)
        => /\ ~lastOp'.ok
           /\ ~lastOp'.wrote
           /\ db' = db
           /\ \A c \in ChapterIds : Load(db', c) = Load(db, c)]_vars

\* C2: a Save that fails, also after it deleted the existing version or
\* inserted rows of the new one, is rolled back: the store is its pre-call
\* state and Load returns what it returned before.
C2_FailedSaveRestoresStore ==
    [][(lastOp'.kind = "save" /\ ~lastOp'.ok)
        => /\ db' = db
           /\ \A c \in ChapterIds : Load(db', c) = Load(db, c)]_vars

\* a Save failed after it had deleted the stored version and inserted new rows
C2_FailedAfterDelete ==
    /\ lastOp.kind = "save" /\ ~lastOp.ok
    /\ lastOp.validated /\ lastOp.wrote /\ lastOp.existed
    /\ Load(db, lastOp.chapter_id) # NotFound

\* C3: after a Save over an existing chapter id, Load returns the second
\* content only, and no table holds a row that is not a row of the version
\* saved last for some chapter.
C3_OverwriteLeavesNoResidue ==
    /\ \A t \in TableNames :
          Rows(db, t) = UNION {RowsOf(lastSaved[c], t) : c \in StoredChapters}
    /\ \A c \in StoredChapters :
          LET got == Load(db, c)
              want == lastSaved[c]
          IN  /\ got # NotFound
              /\ got.chapter_title = want.chapter_title
              /\ got.phase1.summary = want.phase1.summary
              /\ SeqToSet(got.phase1.sections) = SeqToSet(want.phase1.sections)
              /\ SeqToSet(got.phase2.propositions) = SeqToSet(want.phase2.propositions)
              /\ SeqToSet(got.phase2.key_takeaways) = SeqToSet(want.phase2.key_takeaways)

\* a second, different analysis was saved over a stored chapter id
C3_Overwritten ==
    /\ lastOp.kind = "save" /\ lastOp.ok /\ lastOp.existed /\ lastOp.replaced
    /\ lastSaved[lastOp.chapter_id].phase2.propositions # <<>>

\* two analyses are equal field by field; only the order of tags may differ
SameAnalysis(got, want) ==
    LET sameProp(a, b) == [a EXCEPT !.tags = {}] = [b EXCEPT !.tags = {}]
                          /\ SeqToSet(a.tags) = SeqToSet(b.tags)
    IN  /\ got.schema_version = want.schema_version
        /\ got.book_id = want.book_id
        /\ got.chapter_id = want.chapter_id
        /\ got.chapter_title = want.chapter_title
        /\ got.phase1 = want.phase1
        /\ Len(got.phase2.propositions) = Len(want.phase2.propositions)
        /\ \A i \in 1..Len(got.phase2.propositions) :
              sameProp(got.phase2.propositions[i], want.phase2.propositions[i])
        /\ Len(got.phase2.key_takeaways) = Len(want.phase2.key_takeaways)
        /\ \A i \in 1..Len(got.phase2.key_takeaways) :
              sameProp(got.phase2.key_takeaways[i], want.phase2.key_takeaways[i])

\* C4: round trip: Load of a chapter id returns the analysis Save accepted
\* for it, field by field, the sections, propositions and takeaways in the
\* order of the saved analysis.
C4_RoundTrip ==
    \A c \in StoredChapters :
        Load(db, c) # NotFound /\ SameAnalysis(Load(db, c), lastSaved[c])

\* referential closure of one analysis
ReferentiallyClosed(chapter) == ~DanglingReference(chapter)

\* C5: after any sequence of Save and Delete calls every chapter Load returns
\* is referentially closed.
C5_StoreReferentiallyClosed ==
    \A c \in ChapterIds :
        Load(db, c) # NotFound => ReferentiallyClosed(Load(db, c))

-----------------------------------------------------------------------------
(* run_phase_2 as a state machine: one step per generation call *)

\* word counts of a section's text: the spec's 80-word example and one word
\* more than a chunk
WordCounts == {80, CHUNK_SIZE + 1}

\* at most this many sections of a run are longer than CHUNK_SIZE
MaxLongSections == 1

\* the calls run_phase_2(text, chapter_id, phase1) explored: the text is
\* represented by the word count of each section's extracted text
Phase2Calls ==
    {c \in ChapterIds \X Phase1Results \X UNION {[1..n -> WordCounts] : n \in 1..3} :
        /\ Len(c[3]) = Len(c[2].sections)
        /\ Cardinality({i \in 1..Len(c[3]) : c[3][i] > CHUNK_SIZE}) <= MaxLongSections}

\* lines 188-208: the call starts, no section processed yet; engine_takeaways
\* and engine_props record, per section, the takeaways and the propositions
\* as the engine returned them, call after call; call_log lists the calls
\* of call_openai_structured in the order they were made, and outstanding
\* counts the calls made that have not come back
Phase2Start(chapter_id, phase1, words) ==
    /\ run.pc = "idle"
    /\ run' = [pc |-> "extracting", chapter_id |-> chapter_id, phase1 |-> phase1,
              words |-> words, i |-> 1, chunk_idx |-> 0, section_props |-> <<>>,
              all_propositions |-> <<>>, all_takeaways |-> <<>>,
              engine_takeaways |-> [i \in 1..Len(phase1.sections) |-> <<>>],
              engine_props |-> [i \in 1..Len(phase1.sections) |-> <<>>],
              call_log |-> <<>>, outstanding |-> 0, cause |-> "none",
              error |-> [class |-> "none", phase |-> "none", original_error |-> "none"]]
    /\ UNCHANGED <<db, lastOp, lastSaved, job, progress_tracker, reader, savers>>

\* the failure handling mutated: the loop stays at the call that failed
OnCallFailureRetry(r, cause) == [r EXCEPT !.outstanding = 0]

\* lines 489-491: "except Exception as e: ... raise", whatever was gathered
\* is dropped with the frame of run_phase_2
OnCallFailure(r, cause) == [r EXCEPT !.pc = "raised", !.outstanding = 0, !.cause = cause]

\* the test that ends the loop over the sections mutated to end it after
\* the first section
SectionsDoneAfterFirst(i, sections) == i > 1

\* line 209: "for i, section in enumerate(phase1.sections)" is exhausted
SectionsDone(i, sections) == i > Len(sections)

\* lines 285 / 349: call_openai_structured is called for chunk chunk_idx of
\* section i and the thread waits for it
IssueExtraction ==
    /\ run.pc = "extracting"
    /\ ~SectionsDone(run.i, run.phase1.sections)
    /\ run.outstanding = 0
    /\ run' = [run EXCEPT
                 !.call_log = Append(@, [kind |-> "extraction", i |-> run.i,
                                         chunk_idx |-> run.chunk_idx]),
                 !.outstanding = @ + 1]
    /\ UNCHANGED <<db, lastOp, lastSaved, job, progress_tracker, reader, savers>>

\* lines 229-300 / 302-358: the extraction call for section i (chunk
\* chunk_idx of it) is answered with the engine's k-th kind of response;
\* after the section's last chunk the section is renumbered and accumulated
\* (lines 360-369)
ExtractCall(k) ==
    /\ run.pc = "extracting"
    /\ run.outstanding > 0
    /\ LET section == run.phase1.sections[run.i]
           response == ExtractionResponses(section)[k]
           section_props == run.section_props \o response
       IN  IF ~PropositionsValidate(response)
           THEN run' = OnCallFailure(run, "ValidationError")
           ELSE IF run.chunk_idx + 1 < NumChunks(run.words[run.i])
           THEN run' = [run EXCEPT !.section_props = section_props,
                                 !.chunk_idx = run.chunk_idx + 1,
                                 !.outstanding = 0,
                                 !.engine_props[run.i] = @ \o response]
           ELSE run' = [run EXCEPT
                         !.outstanding = 0,
                         !.engine_props[run.i] = @ \o response,
                         !.all_propositions =
                             run.all_propositions
                             \o RenumberSection(run.chapter_id, section, section_props),
                         !.section_props = <<>>, !.chunk_idx = 0, !.i = run.i + 1]
    /\ UNCHANGED <<db, lastOp, lastSaved, job, progress_tracker, reader, savers>>

\* call_openai_structured raises (time-out, API failure): lines 489-491
ExtractCallRaises ==
    /\ run.pc = "extracting"
    /\ run.outstanding > 0
    /\ run' = OnCallFailure(run, "LLMAPIError")
    /\ UNCHANGED <<db, lastOp, lastSaved, job, progress_tracker, reader, savers>>

\* lines 372-389: every section is extracted, the propositions are grouped
BeginSynthesis ==
    /\ run.pc = "extracting"
    /\ run.outstanding = 0
    /\ SectionsDone(run.i, run.phase1.sections)
    /\ run' = [run EXCEPT !.pc = "synthesizing", !.i = 1]
    /\ UNCHANGED <<db, lastOp, lastSaved, job, progress_tracker, reader, savers>>

\* lines 392-396: a section without propositions gets no synthesis call
SynthesisSkip ==
    /\ run.pc = "synthesizing"
    /\ run.i <= Len(run.phase1.sections)
    /\ PropsBySection(run.all_propositions, run.phase1.sections[run.i].unit_id) = <<>>
    /\ run' = [run EXCEPT !.i = run.i + 1]
    /\ UNCHANGED <<db, lastOp, lastSaved, job, progress_tracker, reader, savers>>

\* line 450: call_openai_structured is called for the takeaways of section i
IssueSynthesis ==
    /\ run.pc = "synthesizing"
    /\ run.i <= Len(run.phase1.sections)
    /\ run.outstanding = 0
    /\ PropsBySection(run.all_propositions, run.phase1.sections[run.i].unit_id) # <<>>
    /\ run' = [run EXCEPT
                 !.call_log = Append(@, [kind |-> "synthesis", i |-> run.i, chunk_idx |-> 0]),
                 !.outstanding = @ + 1]
    /\ UNCHANGED <<db, lastOp, lastSaved, job, progress_tracker, reader, savers>>

\* lines 398-463: the synthesis call of section i is answered with the
\* engine's k-th kind of response
SynthesisCall(k) ==
    /\ run.pc = "synthesizing"
    /\ run.outstanding > 0
    /\ LET section == run.phase1.sections[run.i]
           section_props == PropsBySection(run.all_propositions, section.unit_id)
           response == SynthesisResponses(section, section_props)[k]
       IN  /\ section_props # <<>>
           /\ IF ~TakeawaysValidate(response)
              THEN run' = OnCallFailure(run, "ValidationError")
              ELSE run' = [run EXCEPT !.all_takeaways = run.all_takeaways \o response,
                                    !.outstanding = 0,
                                    !.engine_takeaways[run.i] = response,
                                    !.i = run.i + 1]
    /\ UNCHANGED <<db, lastOp, lastSaved, job, progress_tracker, reader, savers>>

\* call_openai_structured raises in the synthesis loop
SynthesisCallRaises ==
    /\ run.pc = "synthesizing"
    /\ run.outstanding > 0
    /\ run' = OnCallFailure(run, "LLMAPIError")
    /\ UNCHANGED <<db, lastOp, lastSaved, job, progress_tracker, reader, savers>>

\* lines 465-486: the takeaways are renumbered and the Phase2Output returned
Phase2Return ==
    /\ run.pc = "synthesizing"
    /\ run.i > Len(run.phase1.sections)
    /\ run' = [run EXCEPT !.pc = "returned",
                        !.all_takeaways = RenumberTakeaways(run.chapter_id, run.all_takeaways)]
    /\ UNCHANGED <<db, lastOp, lastSaved, job, progress_tracker, reader, savers>>

\* graff_orchestrator.py lines 130-132: the exception of run_phase_2 is
\* wrapped, "raise PhaseError("2", ..., e)"
Phase2Wrap ==
    /\ run.pc = "raised"
    /\ run' = [run EXCEPT !.pc = "phase_error",
                          !.error = [class |-> "PhaseError", phase |-> "2",
                                     original_error |-> run.cause]]
    /\ UNCHANGED <<db, lastOp, lastSaved, job, progress_tracker, reader, savers>>

InitPhase2 == InitStore

NextPhase2 ==
    \/ \E c \in Phase2Calls : Phase2Start(c[1], c[2], c[3])
    \/ IssueExtraction
    \/ \E k \in 1..NumExtractionResponses : ExtractCall(k)
    \/ ExtractCallRaises
    \/ BeginSynthesis
    \/ SynthesisSkip
    \/ IssueSynthesis
    \/ \E k \in 1..NumSynthesisResponses : SynthesisCall(k)
    \/ SynthesisCallRaises
    \/ Phase2Return
    \/ Phase2Wrap

SpecPhase2 == InitPhase2 /\ [][NextPhase2]_vars

-----------------------------------------------------------------------------
(* Properties of run_phase_2 *)

IsDigit(ch) == ch \in {"0", "1", "2", "3", "4", "5", "6", "7", "8", "9"}

\* id is {chapter_id}_{unit_id}_p followed by exactly three digits
IsPropositionIdOf(id, chapter_id, unit_id) ==
    LET prefix == chapter_id \o <<"_">> \o unit_id \o <<"_", "p">>
        n == Len(prefix)
    IN  /\ Len(id) = n + 3
        /\ SubSeq(id, 1, n) = prefix
        /\ \A i \in n + 1..n + 3 : IsDigit(id[i])

\* C6: whatever section list the structure pass returned and whatever the
\* engine answered, the proposition list the extraction step leaves holds no
\* two propositions with the same proposition_id, and every proposition_id is
\* {chapter_id}_{unit_id}_pNNN for the unit_id of a section of the chapter.
C6_PropositionIdsUnique ==
    run.pc \in {"synthesizing", "returned"} =>
        LET props == run.all_propositions
        IN  /\ \A a, b \in 1..Len(props) :
                  a # b => props[a].proposition_id # props[b].proposition_id
            /\ \A a \in 1..Len(props) :
                  \E sec \in SeqToSet(run.phase1.sections) :
                      IsPropositionIdOf(props[a].proposition_id, run.chapter_id, sec.unit_id)

\* C7: when run_phase_2 returns, the k-th takeaway of the list (the sections'
\* responses in section-list order, each in the order the engine gave) is the
\* engine's k-th takeaway with takeaway_id {chapter_id}_t and k padded to
\* three digits, so no two takeaways share an id.
C7_TakeawaysNumberedInOrder ==
    run.pc = "returned" =>
        LET engine == Flatten(run.engine_takeaways)
            got == run.all_takeaways
        IN  /\ Len(got) = Len(engine)
            /\ \A k \in 1..Len(got) :
                  /\ got[k].takeaway_id = run.chapter_id \o <<"_", "t">> \o Pad3(k)
                  /\ [got[k] EXCEPT !.takeaway_id = <<>>]
                        = [engine[k] EXCEPT !.takeaway_id = <<>>]
            /\ \A a, b \in 1..Len(got) : a # b => got[a].takeaway_id # got[b].takeaway_id

\* a run returned takeaways of several sections to which the engine had
\* given the same id
C7_EngineIdsCollided ==
    /\ run.pc = "returned"
    /\ Len(run.all_takeaways) >= 3
    /\ LET engine == Flatten(run.engine_takeaways)
       IN  \E a, b \in 1..Len(engine) :
              a # b /\ engine[a].takeaway_id = engine[b].takeaway_id

-----------------------------------------------------------------------------
(* The background job: chapters_digest, process_chapter_background (app.py) *)
(* and digest_chapter_graff (graff_orchestrator.py), one step per stage     *)

\* Save's lower layer fails at one of the first MaxJobFailAt statements, or not
MaxJobFailAt == 2

\* notify's status mutated to the terminal one
NotifyStatusCompleted == "completed"
\* app.py line 108: the callback calls add_progress without a status, which
\* defaults to "in_progress" (line 32)
NotifyStatus == "in_progress"

\* add_progress mutated to insert the event at the front of the list
add_progress_prepends(tracker, job_id, phase, message, status) ==
    [tracker EXCEPT ![job_id] =
        <<[phase |-> phase, message |-> message, status |-> status]>> \o @]

\* add_progress mutated to start the list anew at every call
add_progress_resets(tracker, job_id, phase, message, status) ==
    [tracker EXCEPT ![job_id] =
        <<[phase |-> phase, message |-> message, status |-> status]>>]

\* app.py lines 32-41
add_progress(tracker, job_id, phase, message, status) ==
    [tracker EXCEPT ![job_id] =
        Append(@, [phase |-> phase, message |-> message, status |-> status])]

\* graff_orchestrator.py lines 80-84 with the callback of app.py line 108
notify(tracker, job_id, phase, message) ==
    add_progress(tracker, job_id, phase, message, NotifyStatus)

\* the stages of digest_chapter_graff in the order of its code
Stages == <<"phase-1", "phase-2", "validation", "storage", "completed">>

\* graff_orchestrator.py lines 100-102, 130-132, 147-149, 160-162: the class
\* of the exception the except clause of the try block of `stage` raises
StageHandler(stage) ==
    CASE stage = "phase-1" -> "PhaseError"
      [] stage = "phase-2" -> "PhaseError"
      [] stage = "validation" -> "ValidationError"
      [] stage = "storage" -> "StorageError"

\* the first argument of PhaseError in lines 102 and 132
StageHandlerPhase(stage) ==
    CASE stage = "phase-1" -> "1"
      [] stage = "phase-2" -> "2"
      [] OTHER -> "none"

\* the outer clauses mutated: every exception is wrapped anew
OuterHandlerRewraps(error) == "DigestError"

\* lines 170-182: PhaseError, ValidationError and StorageError are raised
\* again as they are, any other exception becomes a DigestError
OuterHandler(error) ==
    IF error \in {"PhaseError", "ValidationError", "StorageError"} THEN error
    ELSE "DigestError"

\* the control flow mutated: the storage block is entered again
StageAfterRepeating(stage) ==
    CASE stage = "phase-1" -> "phase-2"
      [] stage = "phase-2" -> "validation"
      [] stage = "validation" -> "storage"
      [] stage = "storage" -> "storage"
\* the block that follows the try block of `stage` when it did not raise
StageAfter(stage) ==
    CASE stage = "phase-1" -> "phase-2"
      [] stage = "phase-2" -> "validation"
      [] stage = "validation" -> "storage"
      [] stage = "storage" -> "completed"

\* the except clause of phase 2 mutated away
Phase2FailureIgnored(out) == FALSE
\* lines 130-132: any exception of run_phase_2 becomes PhaseError("2")
Phase2Failed(out) == ~out.ok

\* the structure results and the answers of the engine a job is run with
JobPhase1Results == {P1Single, P1Duplicate}
JobPhase2Scripts ==
    {<<2, 2, "none">>, <<2, 4, "none">>, <<2, 2, "extraction">>,
     <<2, 2, "synthesis">>, <<5, 2, "none">>, <<2, 8, "none">>,
     <<4, 2, "none">>, <<2, 5, "none">>}

\* chapters_digest lines 233-247: the job is registered and its task created
SubmitJob(j, chapter_id) ==
    /\ job[j].pc = "idle"
    /\ progress_tracker' = add_progress(progress_tracker, j, "initialization",
                                        "Starting GRAFF analysis...", "in_progress")
    /\ job' = [job EXCEPT ![j] = [JobIdle EXCEPT !.pc = "phase-1",
                                                 !.chapter_id = chapter_id]]
    /\ UNCHANGED <<db, lastOp, lastSaved, run, reader, savers>>

\* lines 94-99: run_phase_1 returns phase1
StructureOk(j, phase1) ==
    /\ job[j].pc = "phase-1"
    /\ progress_tracker' =
          notify(notify(progress_tracker, j, "phase-1", "Analyzing chapter structure"),
                 j, "phase-1", "Phase 1 complete")
    /\ job' = [job EXCEPT ![j].pc = StageAfter("phase-1"),
                          ![j].phase1 = phase1,
                          ![j].stages = Append(@, "phase-1"),
                          ![j].succeeded = Append(@, "phase-1")]
    /\ UNCHANGED <<db, lastOp, lastSaved, run, reader, savers>>

\* lines 94-102: run_phase_1 raises, PhaseError("1") leaves the function
StructureRaises(j) ==
    /\ job[j].pc = "phase-1"
    /\ progress_tracker' =
          notify(progress_tracker, j, "phase-1", "Analyzing chapter structure")
    /\ job' = [job EXCEPT ![j].pc = "raised",
                          ![j].stages = Append(@, "phase-1"),
                          ![j].phase_failure = "structure",
                          ![j].error = OuterHandler(StageHandler("phase-1")),
                          ![j].error_phase = StageHandlerPhase("phase-1")]
    /\ UNCHANGED <<db, lastOp, lastSaved, run, reader, savers>>

\* lines 105-132: run_phase_2 returns or raises
\* the answers the engine gave in this run hold a bloom level outside the
\* closed set of its kind (recorded for the properties; the code keeps no
\* such flag)
BloomOutsideDomain(chapter_id, phase1, kx, ks, raises) ==
    LET secs == phase1.sections
        rx(i) == ExtractionResponses(secs[i])[kx]
        badx == \E i \in 1..Len(secs) : \E k \in 1..Len(rx(i)) :
                    rx(i)[k].bloom_level \notin PropositionBloom
        props == IF badx THEN <<>>
                 ELSE Flatten([i \in 1..Len(secs) |->
                                  RenumberSection(chapter_id, secs[i], rx(i))])
        sp(i) == PropsBySection(props, secs[i].unit_id)
        rs(i) == IF sp(i) = <<>> THEN <<>> ELSE SynthesisResponses(secs[i], sp(i))[ks]
        bads == \E i \in 1..Len(secs) : \E k \in 1..Len(rs(i)) :
                    rs(i)[k].dominant_bloom_level \notin (TakeawayBloom \cup {NoBloom})
    IN  \/ raises # "extraction" /\ badx
        \/ raises = "none" /\ ~badx /\ bads

ExtractSynthesize(j, script) ==
    /\ job[j].pc = "phase-2"
    /\ LET out == UniformPhase2(job[j].chapter_id, job[j].phase1,
                                script[1], script[2], script[3])
           started == notify(progress_tracker, j, "phase-2", "Extracting atomic facts")
           bad == BloomOutsideDomain(job[j].chapter_id, job[j].phase1,
                                     script[1], script[2], script[3])
       IN  IF Phase2Failed(out)
           THEN /\ progress_tracker' = started
                /\ job' = [job EXCEPT ![j].pc = "raised",
                                      ![j].stages = Append(@, "phase-2"),
                                      ![j].propositions = out.propositions,
                                      ![j].key_takeaways = out.key_takeaways,
                                      ![j].phase_failure = out.failed_in,
                                      ![j].bad_bloom = bad,
                                      ![j].error = OuterHandler(StageHandler("phase-2")),
                                      ![j].error_phase = StageHandlerPhase("phase-2")]
           ELSE /\ progress_tracker' = notify(started, j, "phase-2", "Phase 2 complete")
                /\ job' = [job EXCEPT ![j].pc = StageAfter("phase-2"),
                                      ![j].stages = Append(@, "phase-2"),
                                      ![j].succeeded = Append(@, "phase-2"),
                                      ![j].propositions =
                                          CorrectChapterIds(job[j].chapter_id, out.propositions),
                                      ![j].key_takeaways =
                                          CorrectChapterIds(job[j].chapter_id, out.key_takeaways),
                                      ![j].bad_bloom = bad,
                                      ![j].phase_failure = out.failed_in]
    /\ UNCHANGED <<db, lastOp, lastSaved, run, reader, savers>>

\* lines 135-149: the ChapterAnalysis is constructed from the two validated
\* model instances, which the constructor accepts as they are
Validate(j) ==
    /\ job[j].pc = "validation"
    /\ progress_tracker' =
          notify(notify(progress_tracker, j, "validation", "Validating complete analysis"),
                 j, "validation", "Validation complete")
    /\ job' = [job EXCEPT ![j].pc = StageAfter("validation"),
                          ![j].stages = Append(@, "validation"),
                          ![j].succeeded = Append(@, "validation"),
                          ![j].chapter =
                              Assemble("book", job[j].chapter_id, "title", job[j].phase1,
                                       job[j].propositions, job[j].key_takeaways)]
    /\ UNCHANGED <<db, lastOp, lastSaved, run, reader, savers>>

\* lines 155-162: the StorageError is built from "Database save returned
\* False"; the violation save_chapter_analysis found is logged there and
\* named by no exception, so the error lists none
StorageErrorLists == {}

\* the test of the result mutated away
SaveResultIgnored(success) == FALSE

\* lines 155-156: "if not success: raise StorageError(...)"
SaveReturnedFalse(success) == ~success

\* lines 152-162: save_chapter_analysis(chapter); False becomes StorageError
Store(j, failAt) ==
    /\ job[j].pc = "storage"
    /\ LET out == SaveOutcome(db, job[j].chapter, failAt)
           started == notify(progress_tracker, j, "storage", "Saving to database")
       IN  /\ db' = out.db
           /\ IF ~SaveReturnedFalse(out.ok)
              THEN /\ progress_tracker' = notify(started, j, "storage", "Storage complete")
                   /\ job' = [job EXCEPT ![j].pc = StageAfter("storage"),
                                         ![j].stages = Append(@, "storage"),
                                         ![j].succeeded = Append(@, "storage"),
                                         ![j].saves = @ + 1]
              ELSE /\ progress_tracker' = started
                   /\ job' = [job EXCEPT ![j].pc = "raised",
                                         ![j].stages = Append(@, "storage"),
                                         ![j].error = OuterHandler(StageHandler("storage")),
                                         ![j].error_phase = StageHandlerPhase("storage"),
                                         ![j].listed = StorageErrorLists,
                                         ![j].saves = @ + 1]
    /\ UNCHANGED <<lastOp, lastSaved, run, reader, savers>>

\* lines 164-168: the last notification, then the analysis is returned
Complete(j) ==
    /\ job[j].pc = "completed"
    /\ progress_tracker' = notify(progress_tracker, j, "completed", "Analysis complete! (n)")
    /\ job' = [job EXCEPT ![j].pc = "returned",
                          ![j].stages = Append(@, "completed"),
                          ![j].succeeded = Append(@, "completed")]
    /\ UNCHANGED <<db, lastOp, lastSaved, run, reader, savers>>

\* app.py lines 110-111: the pipeline returned
FinishCompleted(j) ==
    /\ job[j].pc = "returned"
    /\ progress_tracker' =
          add_progress(progress_tracker, j, "completed", "Analysis complete!", "completed")
    /\ job' = [job EXCEPT ![j].pc = "finished"]
    /\ UNCHANGED <<db, lastOp, lastSaved, run, reader, savers>>

\* graff_orchestrator.py lines 22-39: the exception classes
IsInstance(error, class) ==
    \/ class = error
    \/ class = "DigestError" /\ error \in {"PhaseError", "ValidationError", "StorageError"}
    \/ class = "Exception"

\* the except clauses with the last two left out
ExceptClausesNarrow == <<"AnalysisError", "StorageError">>
\* app.py lines 112-123: the except clauses of process_chapter_background
ExceptClauses == <<"AnalysisError", "StorageError", "DigestError", "Exception">>

Catches(error) ==
    \E i \in 1..Len(ExceptClauses) : IsInstance(error, ExceptClauses[i])

\* app.py lines 112-123: the pipeline raised
FinishError(j) ==
    /\ job[j].pc = "raised"
    /\ Catches(job[j].error)
    /\ progress_tracker' =
          add_progress(progress_tracker, j, "error", job[j].error, "error")
    /\ job' = [job EXCEPT ![j].pc = "finished"]
    /\ UNCHANGED <<db, lastOp, lastSaved, run, reader, savers>>

InitJob == InitStore

NextJob ==
    \/ \E j \in JobIds, chapter_id \in ChapterIds : SubmitJob(j, chapter_id)
    \/ \E j \in JobIds, phase1 \in JobPhase1Results : StructureOk(j, phase1)
    \/ \E j \in JobIds : StructureRaises(j)
    \/ \E j \in JobIds, script \in JobPhase2Scripts : ExtractSynthesize(j, script)
    \/ \E j \in JobIds : Validate(j)
    \/ \E j \in JobIds, failAt \in 0..MaxJobFailAt : Store(j, failAt)
    \/ \E j \in JobIds : Complete(j)
    \/ \E j \in JobIds : FinishCompleted(j)
    \/ \E j \in JobIds : FinishError(j)

SpecJob == InitJob /\ [][NextJob]_vars

\* the steps of the task of job j after its submission
JobStep(j) ==
    \/ \E phase1 \in JobPhase1Results : StructureOk(j, phase1)
    \/ StructureRaises(j)
    \/ \E script \in JobPhase2Scripts : ExtractSynthesize(j, script)
    \/ Validate(j)
    \/ \E failAt \in 0..MaxJobFailAt : Store(j, failAt)
    \/ Complete(j)
    \/ FinishCompleted(j)
    \/ FinishError(j)

\* every generation call and every Save returns or raises, and the event
\* loop and the thread pool run every task that can run
LiveJobs == {"job1"}

NextJobLive ==
    \/ \E j \in LiveJobs, chapter_id \in ChapterIds : SubmitJob(j, chapter_id)
    \/ \E j \in LiveJobs : JobStep(j)

SpecJobLive == InitJob /\ [][NextJobLive]_vars /\ \A j \in LiveJobs : WF_vars(JobStep(j))

-----------------------------------------------------------------------------
(* Properties of the background job *)

IsPrefix(a, b) == Len(a) <= Len(b) /\ a = SubSeq(b, 1, Len(a))

\* the place of a phase tag in the order of the stages; "error" closes a log
PhaseRank(phase) ==
    CASE phase = "phase-1" -> 1
      [] phase = "phase-2" -> 2
      [] phase = "validation" -> 3
      [] phase = "storage" -> 4
      [] phase = "completed" -> 5
      [] phase = "error" -> 6
      [] OTHER -> 0

\* C8: a run enters the stages phase-1, phase-2, validation, storage,
\* completed in this order and each at most once, enters a stage only when
\* the one before it succeeded, and enters none after a failure; hence the
\* phase tags of a job's events after the initialization event never go back
\* in that order.
C8_StagesInOrder ==
    /\ [](\A j \in JobIds :
            /\ IsPrefix(job[j].stages, Stages)
            /\ IsPrefix(job[j].succeeded, job[j].stages)
            /\ Len(job[j].stages) <= Len(job[j].succeeded) + 1
            /\ (job[j].error # "none") =
                  (job[j].pc \in {"raised", "finished"} /\ job[j].succeeded # Stages)
            /\ LET log == progress_tracker[j]
               IN  /\ log # <<>> => log[1].phase = "initialization"
                   /\ \A a \in 2..Len(log) : PhaseRank(log[a].phase) >= 1
                   /\ \A a, b \in 2..Len(log) :
                         a < b => PhaseRank(log[a].phase) <= PhaseRank(log[b].phase))
    /\ [][\A j \in JobIds :
            job[j].error # "none" =>
                /\ job'[j].stages = job[j].stages
                /\ job'[j].succeeded = job[j].succeeded]_vars

\* one job went through every stage and another failed in the storage stage
C8_CompletedAndFailedRuns ==
    \E j, k \in JobIds :
        /\ job[j].pc = "finished" /\ job[j].succeeded = Stages
        /\ Len(progress_tracker[j]) = 11
        /\ job[k].pc = "finished" /\ job[k].error = "StorageError"
        /\ job[k].stages = SubSeq(Stages, 1, 4)

\* the positions of the terminal events of a log
TerminalEvents(log) == {a \in 1..Len(log) : log[a].status \in {"completed", "error"}}

\* C9: a job's log holds at most one event with status completed or error;
\* when the job has finished it holds exactly one, which is its last event,
\* and nothing is appended to a log that holds one.
C9_OneTerminalEvent ==
    /\ [](\A j \in JobIds :
            LET log == progress_tracker[j]
            IN  /\ Cardinality(TerminalEvents(log)) <= 1
                /\ job[j].pc = "finished" <=> TerminalEvents(log) = {Len(log)} /\ log # <<>>
                /\ job[j].pc # "finished" => TerminalEvents(log) = {})
    /\ [][\A j \in JobIds :
            TerminalEvents(progress_tracker[j]) # {} =>
                progress_tracker'[j] = progress_tracker[j]]_vars

\* one job finished with a completed event and another with an error event
C9_BothTerminalKinds ==
    \E j, k \in JobIds :
        /\ job[j].pc = "finished" /\ job[k].pc = "finished"
        /\ progress_tracker[j][Len(progress_tracker[j])].status = "completed"
        /\ progress_tracker[j][Len(progress_tracker[j]) - 1].phase = "completed"
        /\ progress_tracker[k][Len(progress_tracker[k])].status = "error"

\* C10: a run whose structure, extraction or synthesis pass failed never
\* invokes Save and none of its steps changes the store: no row of the lists
\* it had built is persisted.
C10_FailedPassNeverSaves ==
    /\ [](\A j \in JobIds :
            job[j].phase_failure # "none" =>
                /\ job[j].saves = 0
                /\ "storage" \notin SeqToSet(job[j].stages))
    /\ []((\A j \in JobIds : job[j].saves = 0) => db = EmptyDb)
    /\ [][\A j \in JobIds :
            (job'[j].pc # job[j].pc /\ job'[j].phase_failure # "none") => db' = db]_vars

\* runs failed in each of the three passes, the synthesis one with
\* propositions already built, and the store holds no row
C10_EveryPassFailed ==
    /\ \E j \in JobIds :
          /\ job[j].pc = "finished" /\ job[j].phase_failure = "synthesis"
          /\ job[j].propositions # <<>>
    /\ \E j \in JobIds : job[j].pc = "finished"
                         /\ job[j].phase_failure \in {"structure", "extraction"}
    /\ db = EmptyDb

-----------------------------------------------------------------------------
(* Validation of the assembled graph *)

\* the violations of the data model's invariants 1-4 present in an analysis
Violations(chapter) ==
    LET units == {x.unit_id : x \in SeqToSet(chapter.phase1.sections)}
        props == chapter.phase2.propositions
        tks == chapter.phase2.key_takeaways
        pids == {props[i].proposition_id : i \in 1..Len(props)}
    IN  {[rule |-> 1, at |-> i] : i \in {i \in 1..Len(props) : props[i].unit_id \notin units}}
        \cup {[rule |-> 2, at |-> i] :
                i \in {i \in 1..Len(tks) : tks[i].unit_id # None /\ tks[i].unit_id \notin units}}
        \cup {[rule |-> 3, at |-> i] :
                i \in {i \in 1..Len(tks) :
                         \E pid \in SeqToSet(tks[i].proposition_ids) : pid \notin pids}}
        \cup {[rule |-> 4, at |-> i] :
                i \in {i \in 1..Len(props) :
                         \E k \in 1..Len(props) :
                            k # i /\ props[k].proposition_id = props[i].proposition_id}}

\* C11: a run whose assembled graph violates several invariants of the data
\* model does not get past the validation stage: it fails there with a
\* ValidationError that lists every violation of the graph.
C11_ValidationListsEveryViolation ==
    \A j \in JobIds :
        ("validation" \in SeqToSet(job[j].stages) /\ job[j].pc # "validation") =>
            LET graph == Assemble("book", job[j].chapter_id, "title", job[j].phase1,
                                  job[j].propositions, job[j].key_takeaways)
            IN  Cardinality(Violations(graph)) >= 2 =>
                    /\ job[j].error = "ValidationError"
                    /\ "validation" \notin SeqToSet(job[j].succeeded)
                    /\ Violations(graph) \subseteq job[j].listed

-----------------------------------------------------------------------------
(* Properties of delete_chapter *)

\* C12: Delete of a chapter id that is not in the store returns False without
\* raising and leaves the store unchanged; Delete returns True only when a
\* chapter row was actually removed.
C12_DeleteAbsentReportsFailure ==
    [][(lastOp'.kind = "delete")
        => /\ (~lastOp'.existed) => (~lastOp'.ok /\ db' = db)
           /\ lastOp'.ok => (lastOp'.existed /\ ~ChapterExists(db', lastOp'.chapter_id))]_vars

\* the rows of a table that belong to the stored version of a chapter
OwnedRows(c, table) ==
    IF lastSaved[c] = NoAnalysis THEN {} ELSE RowsOf(lastSaved[c], table)

\* C13: a successful Delete of a stored chapter removes, in the one step, its
\* chapter row and every dependent row, so that Load returns not-found, and
\* keeps every row and every Load of the other chapters.
C13_DeleteRemovesChapterOnly ==
    [][(lastOp'.kind = "delete" /\ lastOp'.ok /\ lastOp'.existed)
        => LET c == lastOp'.chapter_id
           IN  /\ Load(db', c) = NotFound
               /\ \A t \in TableNames :
                     /\ Rows(db', t) \cap OwnedRows(c, t) = {}
                     /\ \A i \in 1..Len(db[t]) :
                           db[t][i] \notin OwnedRows(c, t) => db[t][i] \in Rows(db', t)
                     /\ Rows(db', t) \subseteq Rows(db, t)
               /\ \A o \in ChapterIds \ {c} : Load(db', o) = Load(db, o)]_vars

\* a chapter with rows in every dependent table was deleted while another
\* chapter with propositions and takeaways was stored
C13_DeletedBesideAnother ==
    /\ lastOp.kind = "delete" /\ lastOp.ok /\ lastOp.existed
    /\ lastOp.removed >= Cardinality(TableNames)
    /\ Load(db, lastOp.chapter_id) = NotFound
    /\ \E o \in ChapterIds \ {lastOp.chapter_id} :
          /\ Load(db, o) # NotFound
          /\ Load(db, o).phase2.propositions # <<>>
          /\ Load(db, o).phase2.key_takeaways # <<>>
-----------------------------------------------------------------------------
(* Reading the store: load_chapter_analysis and list_chapters called       *)
(* between Saves and Deletes                                               *)

\* load_chapter_analysis: None if there is no chapter row, and None again
\* from "except Exception" if a query or the reconstruction raised
LoadOutcome(d, chapter_id, fails) ==
    IF fails THEN NotFound ELSE Load(d, chapter_id)

\* the WHERE clause of the two COUNT(*) subqueries of list_chapters
CountWhereAny(row, chapter_id) == TRUE
CountWhere(row, chapter_id) == row.chapter_id = chapter_id

CountRows(d, table, chapter_id) ==
    Cardinality({i \in 1..Len(d[table]) : CountWhere(d[table][i], chapter_id)})

Reverse(s) == [i \in 1..Len(s) |-> s[Len(s) + 1 - i]]

\* list_chapters: one summary per row of chapters, ORDER BY created_at DESC
\* (the rows were inserted in the order of the table; created_at is left out
\* of the summary)
List(d) ==
    LET chs == Reverse(d["chapters"])
    IN  [i \in 1..Len(chs) |->
            [chapter_id |-> chs[i].chapter_id,
             chapter_title |-> chs[i].chapter_title,
             book_id |-> chs[i].book_id,
             proposition_count |-> CountRows(d, "propositions", chs[i].chapter_id),
             takeaway_count |-> CountRows(d, "key_takeaways", chs[i].chapter_id)]]

\* the kind of engine answer after the first MaxKindsB: two propositions of
\* different bloom levels for every section
MixedBloomKind == MaxKindsB + 1

\* the analyses saved between the reads: chapters A and B with the first
\* MaxKindsB kinds of answers of the engine
QueryScripts ==
    ({ChA} \X {P1Nested} \X (1..MaxKindsB) \X (1..MaxKindsB))
    \cup ({ChA} \X {P1Nested} \X {MixedBloomKind} \X (1..MaxKindsB))
    \cup ({ChB} \X {P1Single} \X (1..MaxKindsB) \X (1..MaxKindsB))

QueryAnalyses ==
    { Assemble("book", q[1], "title", q[2],
               UniformPhase2(q[1], q[2], q[3], q[4], "none").propositions,
               UniformPhase2(q[1], q[2], q[3], q[4], "none").key_takeaways) :
        q \in { q \in QueryScripts : UniformPhase2(q[1], q[2], q[3], q[4], "none").ok } }

\* load_chapter_analysis(chapter_id)
LoadCall(chapter_id, fails) ==
    /\ lastOp' = [kind |-> "load", chapter_id |-> chapter_id, failed |-> fails,
                  result |-> LoadOutcome(db, chapter_id, fails)]
    /\ UNCHANGED <<db, lastSaved, run, job, progress_tracker, reader, savers>>

\* a WHERE clause that tests the bloom level only
BloomWhereAnyChapter(row, chapter_id, bloom_level) == row.bloom_level = bloom_level

\* connection.py line 433: WHERE chapter_id = ? AND bloom_level = ?
BloomWhere(row, chapter_id, bloom_level) ==
    row.chapter_id = chapter_id /\ row.bloom_level = bloom_level

\* get_propositions_by_bloom(chapter_id, bloom_level), connection.py 417-458
get_propositions_by_bloom(d, chapter_id, bloom_level) ==
    LET keep(r) == BloomWhere(r, chapter_id, bloom_level)
        rows == OrderBy("unit_id, id", SelectSeq(d["propositions"], keep))
    IN  [i \in 1..Len(rows) |->
            [proposition_id |-> rows[i].id, chapter_id |-> rows[i].chapter_id,
             unit_id |-> rows[i].unit_id,
             proposition_text |-> rows[i].proposition_text,
             bloom_level |-> rows[i].bloom_level, bloom_verb |-> rows[i].bloom_verb,
             evidence_location |-> rows[i].evidence_location,
             source_type |-> rows[i].source_type,
             tags |-> PropositionTagsOf(d, rows[i].id)]]

\* GET /chapters/{chapter_id}/propositions?bloom_level=..., app.py 384-398:
\* a level outside the four is answered 400 before the query
BloomCall(chapter_id, bloom_level) ==
    /\ bloom_level \in PropositionBloom
    /\ lastOp' = [kind |-> "by_bloom", chapter_id |-> chapter_id,
                  bloom_level |-> bloom_level,
                  result |-> get_propositions_by_bloom(db, chapter_id, bloom_level)]
    /\ UNCHANGED <<db, lastSaved, run, job, progress_tracker, reader, savers>>

\* list_chapters()
ListCall ==
    /\ lastOp' = [kind |-> "list", result |-> List(db)]
    /\ UNCHANGED <<db, lastSaved, run, job, progress_tracker, reader, savers>>

InitQuery == InitStore

NextQuery ==
    \/ \E chapter \in QueryAnalyses : Save(chapter, 0)
    \/ \E chapter_id \in ChapterIds, fails \in BOOLEAN : Delete(chapter_id, fails)
    \/ \E chapter_id \in ChapterIds, fails \in BOOLEAN : LoadCall(chapter_id, fails)
    \/ \E chapter_id \in ChapterIds, bloom_level \in PropositionBloom :
          BloomCall(chapter_id, bloom_level)
    \/ ListCall

SpecQuery == InitQuery /\ [][NextQuery]_vars

\* C14: Load returns not-found exactly when the chapter row is absent, and
\* a read or a delete of a stored chapter that fails is never reported as
\* not-found (for Delete: the endpoint's 404 answer).
C14_NotFoundOnlyWhenAbsent ==
    /\ lastOp.kind = "load" =>
          (lastOp.result = NotFound <=> ~ChapterExists(db, lastOp.chapter_id))
    /\ (lastOp.kind = "delete" /\ lastOp.existed) => lastOp.status # "404"

\* C15: List returns exactly one summary per stored chapter, and the counts
\* of each summary are the numbers of propositions and takeaways Load returns
\* for that chapter in the same state.
C15_ListCountsAreLive ==
    lastOp.kind = "list" =>
        LET result == lastOp.result
        IN  /\ \A c \in ChapterIds :
                  Cardinality({i \in 1..Len(result) : result[i].chapter_id = c})
                      = IF Load(db, c) # NotFound THEN 1 ELSE 0
            /\ \A i \in 1..Len(result) :
                  LET got == Load(db, result[i].chapter_id)
                  IN  /\ got # NotFound
                      /\ result[i].proposition_count = Len(got.phase2.propositions)
                      /\ result[i].takeaway_count = Len(got.phase2.key_takeaways)

\* two chapters with different numbers of propositions were listed
C15_ListedTwoChapters ==
    /\ lastOp.kind = "list"
    /\ Len(lastOp.result) = 2
    /\ lastOp.result[1].proposition_count # lastOp.result[2].proposition_count
    /\ lastOp.result[1].proposition_count > 0
    /\ lastOp.result[2].takeaway_count > 0
-----------------------------------------------------------------------------
(* Bloom domains *)

\* C16: every stored proposition has a bloom level of PropositionBloom and
\* every stored takeaway a dominant bloom level that is None or of
\* TakeawayBloom; a run in which the engine answered with any other value
\* fails in Phase 2 and saves nothing.
C16_BloomDomainEnforced ==
    /\ \A r \in Rows(db, "propositions") : r.bloom_level \in PropositionBloom
    /\ \A r \in Rows(db, "key_takeaways") :
          r.dominant_bloom_level = NoBloom \/ r.dominant_bloom_level \in TakeawayBloom
    /\ \A j \in JobIds :
          job[j].bad_bloom =>
              /\ job[j].error = "PhaseError"
              /\ job[j].phase_failure # "none"
              /\ job[j].saves = 0
              /\ "storage" \notin SeqToSet(job[j].stages)

\* a run whose takeaways came with a bloom level outside TakeawayBloom has
\* ended with its error event, beside a run that stored its analysis
C16_BadBloomRunEnded ==
    \E j \in JobIds :
        /\ job[j].bad_bloom /\ job[j].phase_failure = "synthesis"
        /\ progress_tracker[j] # <<>>
        /\ progress_tracker[j][Len(progress_tracker[j])].status = "error"
        /\ Rows(db, "propositions") # {}
        /\ Rows(db, "key_takeaways") # {}
-----------------------------------------------------------------------------
(* The progress log *)

\* C17: the progress log is append-only: a call of add_progress extends the
\* log of its job by exactly one event at the end and leaves the logs of the
\* other jobs as they are, and in every step each job's earlier log is a
\* prefix of its later log, only one job's log growing.
C17_ProgressLogAppendOnly ==
    [][/\ \A j \in JobIds :
             LET after == add_progress(progress_tracker, j, "phase", "message", "in_progress")
             IN  /\ Len(after[j]) = Len(progress_tracker[j]) + 1
                 /\ IsPrefix(progress_tracker[j], after[j])
                 /\ after[j][Len(after[j])] =
                        [phase |-> "phase", message |-> "message", status |-> "in_progress"]
                 /\ \A o \in JobIds \ {j} : after[o] = progress_tracker[o]
       /\ \A j \in JobIds : IsPrefix(progress_tracker[j], progress_tracker'[j])
       /\ Cardinality({j \in JobIds : progress_tracker'[j] # progress_tracker[j]}) <= 1]_vars

\* both jobs have written several events, one of them its terminal event
C17_TwoLogsGrown ==
    /\ \A j \in JobIds : Len(progress_tracker[j]) >= 3
    /\ \E j \in JobIds :
          progress_tracker[j][Len(progress_tracker[j])].status \in {"completed", "error"}
-----------------------------------------------------------------------------
(* stream_progress (app.py lines 44-70): the generator of one reader, run   *)
(* by the event loop while the worker thread of the job appends to the log. *)
(* Every yield suspends the generator, and the worker thread is preempted   *)
(* at no point the generator chooses, so the slice, each yield and the      *)
(* assignment of last_index are steps of their own.                         *)

\* max_timeout = 3600 half-second polls in the code; the model closes the
\* stream after MaxPolls passes of the loop
MaxPolls == 3

\* the job whose worker runs while the reader streams
StreamedJobs == {"job1"}

TerminalStatuses == {"completed", "error"}

\* progress_tracker[job_id][last_index:]
SliceFrom(log, last_index) ==
    IF last_index >= Len(log) THEN <<>> ELSE SubSeq(log, last_index + 1, Len(log))

\* last_index = len(progress_tracker[job_id]), read after the batch was sent
CursorAfterBatch(log, last_index, updates) == Len(log)

\* a sleep that leaves timeout_count as it was
SleepTickStalls(timeout_count) == timeout_count

\* line 64: timeout_count += 0.5 after the sleep, counted in passes of the loop
SleepTick(timeout_count) == timeout_count + 1

\* line 67: the message sent after the loop
StreamClosed == [status |-> "timeout", message |-> "Stream closed"]

\* a generator that sends the final message only when it gave up waiting
FinalOnlyAfterTimeout(closed_by) ==
    IF closed_by = "timeout" THEN <<StreamClosed>> ELSE <<>>

\* lines 66-67: the yield after the while loop, reached when the loop test
\* fails and by the break of line 62 alike
FinalMessages(closed_by) == <<StreamClosed>>

\* lines 48-50: the generator's locals at its start; delivered and final are
\* what the client has received, closed_by the way the loop was left
Opened(job_id) ==
    [pc |-> "poll", job_id |-> job_id, last_index |-> 0, timeout_count |-> 0,
     updates |-> <<>>, pos |-> 0, delivered |-> <<>>, final |-> <<>>,
     closed_by |-> "none"]

\* lines 52-55 and 63-64: the loop test, the membership test and the slice;
\* an empty slice goes on to the sleep
Polled(rd, tracker) ==
    IF rd.timeout_count >= MaxPolls
    THEN [rd EXCEPT !.pc = "closing", !.closed_by = "timeout"]
    ELSE LET updates == SliceFrom(tracker[rd.job_id], rd.last_index)
         IN  IF updates # <<>>
             THEN [rd EXCEPT !.pc = "yield", !.updates = updates, !.pos = 1]
             ELSE [rd EXCEPT !.timeout_count = SleepTick(@)]

\* lines 56-57: one yield of the batch
Yielded(rd) ==
    [rd EXCEPT !.delivered = Append(@, rd.updates[rd.pos]),
               !.pos = @ + 1,
               !.pc = IF rd.pos = Len(rd.updates) THEN "advance" ELSE "yield"]

\* lines 58-64: the cursor is set, then the break on a terminal status of
\* the last update of the batch, else the sleep
Advanced(rd, tracker) ==
    LET last_index == CursorAfterBatch(tracker[rd.job_id], rd.last_index, rd.updates)
        last == rd.updates[Len(rd.updates)]
    IN  IF last.status \in TerminalStatuses
        THEN [rd EXCEPT !.last_index = last_index, !.pc = "closing",
                        !.closed_by = "terminal"]
        ELSE [rd EXCEPT !.last_index = last_index, !.pc = "poll",
                        !.timeout_count = SleepTick(@)]

\* lines 66-67: the final message is sent and the generator returns
Closed(rd) ==
    [rd EXCEPT !.pc = "closed", !.final = @ \o FinalMessages(rd.closed_by)]

\* GET /chapters/progress/{job_id}
StreamOpen(job_id) ==
    /\ reader.pc = "idle"
    /\ reader' = Opened(job_id)
    /\ UNCHANGED <<db, lastOp, lastSaved, run, job, progress_tracker, savers>>

StreamPoll ==
    /\ reader.pc = "poll"
    /\ reader' = Polled(reader, progress_tracker)
    /\ UNCHANGED <<db, lastOp, lastSaved, run, job, progress_tracker, savers>>

StreamYield ==
    /\ reader.pc = "yield"
    /\ reader' = Yielded(reader)
    /\ UNCHANGED <<db, lastOp, lastSaved, run, job, progress_tracker, savers>>

StreamAdvance ==
    /\ reader.pc = "advance"
    /\ reader' = Advanced(reader, progress_tracker)
    /\ UNCHANGED <<db, lastOp, lastSaved, run, job, progress_tracker, savers>>

StreamClose ==
    /\ reader.pc = "closing"
    /\ reader' = Closed(reader)
    /\ UNCHANGED <<db, lastOp, lastSaved, run, job, progress_tracker, savers>>

InitStream == InitStore

NextStream ==
    \/ \E j \in StreamedJobs, chapter_id \in ChapterIds : SubmitJob(j, chapter_id)
    \/ \E j \in StreamedJobs, phase1 \in JobPhase1Results : StructureOk(j, phase1)
    \/ \E j \in StreamedJobs : StructureRaises(j)
    \/ \E j \in StreamedJobs, script \in JobPhase2Scripts : ExtractSynthesize(j, script)
    \/ \E j \in StreamedJobs : Validate(j)
    \/ \E j \in StreamedJobs, failAt \in 0..MaxJobFailAt : Store(j, failAt)
    \/ \E j \in StreamedJobs : Complete(j)
    \/ \E j \in StreamedJobs : FinishCompleted(j)
    \/ \E j \in StreamedJobs : FinishError(j)
    \/ \E job_id \in JobIds : StreamOpen(job_id)
    \/ StreamPoll
    \/ StreamYield
    \/ StreamAdvance
    \/ StreamClose

SpecStream == InitStream /\ [][NextStream]_vars

\* C18: the reader delivers the events of the job's log once each and in the
\* order of the log, whatever the writer appends meanwhile, and a stream that
\* ended on a terminal status has delivered the whole log, the terminal event
\* included.
C18_StreamDeliversEveryEvent ==
    reader.pc # "idle" =>
        /\ IsPrefix(reader.delivered, progress_tracker[reader.job_id])
        /\ (reader.pc = "poll" /\ reader.last_index = Len(progress_tracker[reader.job_id]))
               => reader.delivered = progress_tracker[reader.job_id]
        /\ reader.closed_by = "terminal"
               => reader.delivered = progress_tracker[reader.job_id]
-----------------------------------------------------------------------------
(* Termination of a job *)

\* C19: every submitted job eventually ends with a terminal event as the
\* last event of its log: status completed if the pipeline returned, status
\* error if it raised, whatever it raised.
C19_SubmittedJobEnds ==
    \A j \in JobIds :
        (job[j].pc # "idle") ~>
            /\ job[j].pc = "finished"
            /\ progress_tracker[j][Len(progress_tracker[j])].status =
                   IF job[j].error = "none" THEN "completed" ELSE "error"

\* a job whose synthesis raised has ended with its error event as the last
\* event of its log
C19_RaisedJobEnded ==
    \E j \in JobIds :
        /\ job[j].pc = "finished" /\ job[j].phase_failure = "synthesis"
        /\ job[j].error = "PhaseError"
        /\ Len(progress_tracker[j]) >= 4
        /\ progress_tracker[j][Len(progress_tracker[j])].status = "error"
-----------------------------------------------------------------------------
(* Two threads in save_chapter_analysis at the same time.  Each call has    *)
(* its own connection (line 75).  The SELECT of line 106 reads the          *)
(* committed database; the first DELETE or INSERT opens the transaction and *)
(* takes SQLite's write lock, which one connection holds at a time, until   *)
(* commit or rollback; a connection that waits for the lock longer than the *)
(* timeout of sqlite3.connect gets "database is locked".                    *)

\* the calls each thread makes
MaxSaveCalls == 2

\* the valid analyses the threads save: two versions of chapter A, one of B
SaverScripts ==
    {<<ChA, P1Single, 2, 2>>, <<ChA, P1Single, 2, 1>>, <<ChB, P1Single, 2, 2>>}

SaverAnalyses ==
    { Assemble("book", q[1], "title", q[2],
               UniformPhase2(q[1], q[2], q[3], q[4], "none").propositions,
               UniformPhase2(q[1], q[2], q[3], q[4], "none").key_takeaways) :
        q \in SaverScripts }

\* the connection that holds the write lock
LockHeld == \E p \in SaverIds : savers[p].pc = "commit"

\* lines 75-103: the connection is opened and the references are checked
SaveEnter(p, chapter) ==
    /\ savers[p].pc = "idle"
    /\ savers[p].calls < MaxSaveCalls
    /\ savers' = [savers EXCEPT ![p] =
                     IF SaveValidationPasses(chapter)
                     THEN [SaverIdle EXCEPT !.pc = "check", !.chapter = chapter,
                                            !.calls = savers[p].calls + 1]
                     ELSE [SaverIdle EXCEPT !.pc = "done", !.chapter = chapter,
                                            !.calls = savers[p].calls + 1]]
    /\ UNCHANGED <<db, lastOp, lastSaved, run, job, progress_tracker, reader>>

\* lines 106-107: SELECT id FROM chapters WHERE chapter_id = ?
SaveCheckExisting(p) ==
    /\ savers[p].pc = "check"
    /\ savers' = [savers EXCEPT ![p].pc = "write",
                                ![p].existing = ChapterExists(db, savers[p].chapter.chapter_id)]
    /\ UNCHANGED <<db, lastOp, lastSaved, run, job, progress_tracker, reader>>

\* lines 109-207: the DELETE, if a row was found, and the INSERTs, in the
\* transaction that holds the write lock; a statement that raises leads to
\* the rollback and False of lines 213-219
SaveWrite(p) ==
    /\ savers[p].pc = "write"
    /\ ~LockHeld
    /\ LET r == RunStatements(db, SaveStatementsAfterCheck(savers[p].existing,
                                                          savers[p].chapter), 1, 0, 0)
       IN  savers' = [savers EXCEPT ![p] =
                         IF r.ok
                         THEN [@ EXCEPT !.pc = "commit", !.tx = r.db]
                         ELSE [@ EXCEPT !.pc = "done", !.ok = FALSE,
                                        !.tx = Rollback(db, r.db)]]
    /\ UNCHANGED <<db, lastOp, lastSaved, run, job, progress_tracker, reader>>

\* the first write waited for the lock of the other connection until the
\* timeout: OperationalError, rollback, False
SaveLockTimeout(p) ==
    /\ savers[p].pc = "write"
    /\ LockHeld
    /\ savers' = [savers EXCEPT ![p].pc = "done", ![p].ok = FALSE, ![p].busy = TRUE]
    /\ UNCHANGED <<db, lastOp, lastSaved, run, job, progress_tracker, reader>>

\* lines 209-211: conn.commit() and True
SaveCommit(p) ==
    /\ savers[p].pc = "commit"
    /\ db' = Commit(db, savers[p].tx)
    /\ lastSaved' = [lastSaved EXCEPT ![savers[p].chapter.chapter_id] = savers[p].chapter]
    /\ savers' = [savers EXCEPT ![p].pc = "done", ![p].ok = TRUE]
    /\ UNCHANGED <<lastOp, run, job, progress_tracker, reader>>

\* the caller has the result; the thread may call again
SaveLeave(p) ==
    /\ savers[p].pc = "done"
    /\ savers' = [savers EXCEPT ![p] = [SaverIdle EXCEPT !.calls = savers[p].calls]]
    /\ UNCHANGED <<db, lastOp, lastSaved, run, job, progress_tracker, reader>>

InitSavers == InitStore

NextSavers ==
    \/ \E p \in SaverIds, chapter \in SaverAnalyses : SaveEnter(p, chapter)
    \/ \E p \in SaverIds : SaveCheckExisting(p)
    \/ \E p \in SaverIds : SaveWrite(p)
    \/ \E p \in SaverIds : SaveLockTimeout(p)
    \/ \E p \in SaverIds : SaveCommit(p)
    \/ \E p \in SaverIds : SaveLeave(p)

SpecSavers == InitSavers /\ [][NextSavers]_vars

\* C20: concurrent Saves of valid analyses all report success, those of one
\* chapter id as those of different ones (a Save that was refused the write
\* lock until the timeout aside), and the store holds, for every chapter,
\* exactly the rows of the version committed last.
C20_ConcurrentSavesSucceed ==
    /\ \A p \in SaverIds :
          (savers[p].pc = "done" /\ ~savers[p].busy) => savers[p].ok
    /\ \A t \in TableNames :
          Rows(db, t) = UNION {RowsOf(lastSaved[c], t) : c \in StoredChapters}
    /\ \A c \in StoredChapters : Load(db, c) # NotFound
-----------------------------------------------------------------------------
(* POST /chapters/digest (app.py lines 126-265): the checks on the upload   *)
(* before a job is started                                                  *)

\* app.py line 27: MAX_FILE_SIZE = 100 * 1024 * 1024
MAX_FILE_SIZE == 104857600
\* app.py line 216: len(text.strip()) < 100
MinTextLength == 100

\* an uploaded file: the number of bytes read, whether the text extraction or
\* decoding succeeds, and the extracted text as its leading whitespace, its
\* part from the first to the last non-whitespace character and its trailing
\* whitespace (numbers of characters)
Upload(content_len, extracts, lead, core, trail) ==
    [content_len |-> content_len, extracts |-> extracts,
     text |-> [lead |-> lead, core |-> core, trail |-> trail]]

Uploads ==
    {Upload(0, TRUE, 0, 0, 0),
     Upload(MAX_FILE_SIZE + 1, TRUE, 0, MAX_FILE_SIZE + 1, 0),
     Upload(400, FALSE, 0, 0, 0),
     Upload(9, TRUE, 0, 9, 0),
     Upload(150, TRUE, 100, 0, 50),
     Upload(101, TRUE, 1, MinTextLength - 1, 1),
     Upload(MinTextLength, TRUE, 0, MinTextLength, 0),
     Upload(5002, TRUE, 1, 5000, 1)}

\* len(text)
TextLen(text) == text.lead + text.core + text.trail

\* the test of line 216 without the strip
StripNothing(text) == text
\* text.strip()
Strip(text) == [lead |-> 0, core |-> text.core, trail |-> 0]

\* the status the endpoint answers with before the job is started: lines
\* 150-156 (413), 159-164 and 167-214 (400), 216-221 (400); "200": none
UploadStatus(upload) ==
    IF upload.content_len > MAX_FILE_SIZE THEN "413"
    ELSE IF upload.content_len = 0 THEN "400"
    ELSE IF ~upload.extracts THEN "400"
    ELSE IF TextLen(Strip(upload.text)) < MinTextLength THEN "400"
    ELSE "200"

\* chapters_digest: a rejected upload raises the HTTPException; an accepted
\* one gets a fresh job id, the first event of its log and its task (lines
\* 234-254, as SubmitJob)
chapters_digest(j, chapter_id, upload) ==
    /\ job[j].pc = "idle"
    /\ IF UploadStatus(upload) # "200"
       THEN /\ lastOp' = [kind |-> "digest", upload |-> upload,
                          status |-> UploadStatus(upload), job_id |-> "none"]
            /\ UNCHANGED <<job, progress_tracker>>
       ELSE /\ lastOp' = [kind |-> "digest", upload |-> upload,
                          status |-> "200", job_id |-> j]
            /\ progress_tracker' = add_progress(progress_tracker, j, "initialization",
                                                "Starting GRAFF analysis...", "in_progress")
            /\ job' = [job EXCEPT ![j] = [JobIdle EXCEPT !.pc = "phase-1",
                                                         !.chapter_id = chapter_id]]
    /\ UNCHANGED <<db, lastSaved, run, reader, savers>>

InitSubmit == InitStore

NextSubmit ==
    \/ \E j \in JobIds, chapter_id \in ChapterIds, upload \in Uploads :
          chapters_digest(j, chapter_id, upload)
    \/ \E j \in JobIds : JobStep(j)

SpecSubmit == InitSubmit /\ [][NextSubmit]_vars

\* C21: a submission whose upload is empty or whose text, stripped of the
\* surrounding whitespace, has fewer than 100 characters is answered with a
\* client error; it gets no job id, no log and no task.
C21_ShortUploadRejected ==
    [][(/\ lastOp'.kind = "digest" /\ lastOp' # lastOp
        /\ \/ lastOp'.upload.content_len = 0
           \/ lastOp'.upload.text.core < 100)
        => /\ lastOp'.status = "400"
           /\ lastOp'.job_id = "none"
           /\ progress_tracker' = progress_tracker
           /\ job' = job]_vars

\* a text of 100 or more characters of which fewer than 100 are left after
\* the strip was rejected while the job submitted before it was running
C21_PaddedShortTextRejected ==
    /\ lastOp.kind = "digest" /\ lastOp.status = "400"
    /\ lastOp.upload.text.core = 99
    /\ TextLen(lastOp.upload.text) >= 100
    /\ \E j \in JobIds : job[j].pc \notin {"idle", "finished"}
    /\ \E j \in JobIds : progress_tracker[j] = <<>>
-----------------------------------------------------------------------------
(* Termination of a progress reader *)

\* the steps of the generator of stream_progress after the request
StreamStep ==
    \/ StreamPoll
    \/ StreamYield
    \/ StreamAdvance
    \/ StreamClose

\* the event loop resumes the generator after every sleep and every yield
\* (the client keeps reading), and runs the task of the job
SpecStreamLive ==
    SpecStream /\ WF_vars(StreamStep) /\ \A j \in StreamedJobs : WF_vars(JobStep(j))

\* C23: a reader that was opened stops, whether the job ends, never ends its
\* log with a terminal event in time or is unknown; no step of the reader
\* changes a log or a job, and the job runs to its terminal event whatever
\* the reader does.
C23_ReaderStopsJobGoesOn ==
    /\ (reader.pc # "idle") ~> (reader.pc = "closed")
    /\ [][reader' # reader => (progress_tracker' = progress_tracker /\ job' = job)]_vars
    /\ \A j \in StreamedJobs :
          (job[j].pc # "idle") ~>
              /\ job[j].pc = "finished"
              /\ progress_tracker[j][Len(progress_tracker[j])].status \in TerminalStatuses

\* the reader gave up on its timeout before the log of the job was complete,
\* and the job has written its terminal event since
C23_TimedOutReaderJobFinished ==
    /\ reader.pc = "closed"
    /\ reader.closed_by = "timeout"
    /\ reader.job_id \in StreamedJobs
    /\ job[reader.job_id].pc = "finished"
    /\ Len(reader.delivered) < Len(progress_tracker[reader.job_id])
    /\ progress_tracker[reader.job_id][Len(progress_tracker[reader.job_id])].status
           \in TerminalStatuses
-----------------------------------------------------------------------------
(* Segmentation: _extract_section_text (llm_client.py lines 104-136), called *)
(* once per section by run_phase_2 (lines 209-215).                          *)

\* U+0130, the one character whose str.lower() is two characters: "i" and
\* the combining dot U+0307
DottedI == "U0130"
CombiningDot == "U0307"

\* str.lower() of one character
LowerChar(ch) ==
    CASE ch = "S" -> <<"s">>
      [] ch = "N" -> <<"n">>
      [] ch = DottedI -> <<"i", CombiningDot>>
      [] OTHER -> <<ch>>

\* str.lower()
Lower(s) == Flatten([i \in 1..Len(s) |-> LowerChar(s[i])])

\* s.find(sub, start): the lowest 0-based index from start on where sub
\* occurs in s, -1 if there is none
Find(s, sub, start) ==
    LET hits == {i \in start..(Len(s) - Len(sub)) : SubSeq(s, i + 1, i + Len(sub)) = sub}
    IN  IF hits = {} THEN -1 ELSE CHOOSE i \in hits : \A k \in hits : i <= k

\* s[a:b] for 0 <= a and 0 <= b; a slice is cut at the end of s
Slice(s, a, b) ==
    LET e == IF b > Len(s) THEN Len(s) ELSE b
    IN  IF a >= e THEN <<>> ELSE SubSeq(s, a + 1, e)

\* lines 117-136
extract_section_text(full_text, section_title, next_section_title) ==
    LET exact == Find(full_text, section_title, 0)
        start_idx == IF exact = -1
                     THEN Find(Lower(full_text), Lower(section_title), 0)
                     ELSE exact
        from == start_idx + Len(section_title)
        exactEnd == Find(full_text, next_section_title, from)
        lowerEnd == IF exactEnd = -1
                    THEN Find(Lower(full_text), Lower(next_section_title), from)
                    ELSE exactEnd
        end_idx == IF Truthy(next_section_title)
                   THEN IF lowerEnd = -1 THEN Len(full_text) ELSE lowerEnd
                   ELSE Len(full_text)
    IN  IF start_idx = -1 THEN full_text ELSE Slice(full_text, start_idx, end_idx)

\* phase1.sections[i+1].title if i+1 < len(phase1.sections) else None, for
\* the 1-based position i of the model
NextSectionTitle(titles, i) == IF i < Len(titles) THEN titles[i + 1] ELSE None

MaxTextLen == 4
MaxSections == 2

SegmentAlphabet == {"s", "n", "S", DottedI}
SegmentTexts == UNION {[1..n -> SegmentAlphabet] : n \in 0..MaxTextLen}
SegmentTitles == {<<"s">>, <<"S">>, <<"n">>, <<"s", "n">>}
SegmentTitleLists == UNION {[1..n -> SegmentTitles] : n \in 1..MaxSections}

\* the loop of run_phase_2 at one section: one span is cut
Segment ==
    /\ run.pc = "segment"
    /\ Len(run.spans) < Len(run.titles)
    /\ LET i == Len(run.spans) + 1
       IN  run' = [run EXCEPT !.spans =
                      Append(@, extract_section_text(run.text, run.titles[i],
                                                     NextSectionTitle(run.titles, i)))]
    /\ UNCHANGED <<db, lastOp, lastSaved, job, progress_tracker, reader, savers>>

InitSegment ==
    /\ db = EmptyDb
    /\ lastOp = NoOp
    /\ lastSaved = [c \in ChapterIds |-> NoAnalysis]
    /\ run \in [pc : {"segment"}, text : SegmentTexts, titles : SegmentTitleLists,
                spans : {<<>>}]
    /\ job = NoJobs
    /\ progress_tracker = NoProgress
    /\ reader = ReaderIdle
    /\ savers = NoSavers

NextSegment == Segment

SpecSegment == InitSegment /\ [][NextSegment]_vars

\* the occurrences of a title in a text from position from on, as pairs of
\* 0-based start and length: the exact ones, and the ones that match when
\* case is ignored
ExactOccurrences(text, title, from) ==
    {<<p, Len(title)>> : p \in {q \in from..(Len(text) - Len(title)) :
                                  SubSeq(text, q + 1, q + Len(title)) = title}}

CaselessOccurrences(text, title, from) ==
    {o \in (from..Len(text)) \X (0..Len(text)) :
        /\ o[1] + o[2] <= Len(text)
        /\ Lower(SubSeq(text, o[1] + 1, o[1] + o[2])) = Lower(title)}

\* the first occurrence, an exact one if there is any
FirstOccurrence(text, title, from) ==
    LET occ == IF ExactOccurrences(text, title, from) # {}
               THEN ExactOccurrences(text, title, from)
               ELSE CaselessOccurrences(text, title, from)
    IN  CHOOSE o \in occ : \A k \in occ : o[1] < k[1] \/ (o[1] = k[1] /\ o[2] <= k[2])

Occurs(text, title, from) ==
    ExactOccurrences(text, title, from) \cup CaselessOccurrences(text, title, from) # {}

\* the span the section at position i is to get
ExpectedSpan(text, titles, i) ==
    IF ~Occurs(text, titles[i], 0) THEN text
    ELSE LET o == FirstOccurrence(text, titles[i], 0)
             next == NextSectionTitle(titles, i)
             e == IF Truthy(next) /\ Occurs(text, next, o[1] + o[2])
                  THEN FirstOccurrence(text, next, o[1] + o[2])[1]
                  ELSE Len(text)
         IN  Slice(text, o[1], e)

\* C24: every section gets one span; a section whose title occurs nowhere in
\* the text, in either case, gets the whole text, and a section whose title
\* occurs gets the text from that occurrence to the first occurrence of the
\* next title after it, or to the end of the text.
C24_SegmentationFollowsTitles ==
    run.pc = "segment" =>
        \A i \in 1..Len(run.spans) :
            run.spans[i] = ExpectedSpan(run.text, run.titles, i)
-----------------------------------------------------------------------------
(* Takeaways without propositions *)

\* KeyTakeaway.validate_proposition_ids (models.py lines 158-160): a method
\* no validator decorates and nothing calls
validate_proposition_ids(takeaway) == Len(takeaway.proposition_ids) > 0

\* C25: no stored takeaway is without a proposition: every row of
\* key_takeaways has a row of takeaway_propositions, because an analysis with
\* a takeaway whose proposition_ids is empty is rejected.
C25_NoEmptyTakeawayStored ==
    /\ \A t \in Rows(db, "key_takeaways") :
          \E r \in Rows(db, "takeaway_propositions") : r.takeaway_id = t.id
    /\ \A c \in StoredChapters :
          \A t \in SeqToSet(lastSaved[c].phase2.key_takeaways) :
              validate_proposition_ids(t)
-----------------------------------------------------------------------------
(* Numbering of the propositions of a section *)

\* the propositions the engine returned for section i, the seq-th of them
\* numbered seq
NumberedInReturnedOrder(i) ==
    [seq \in 1..Len(run.engine_props[i]) |->
        [run.engine_props[i][seq] EXCEPT
            !.proposition_id =
                run.chapter_id \o <<"_">> \o run.phase1.sections[i].unit_id
                    \o <<"_", "p">> \o Pad3(seq)]]

\* C26: the propositions of a section are numbered 1..N over all its chunks,
\* chunk after chunk and within a chunk in the order the engine returned
\* them; the numbering starts again at 1 in the next section, and the flat
\* list is in section order, then chunk order, then the order of the call.
C26_NumberedAcrossChunks ==
    run.pc \in {"extracting", "synthesizing", "returned"} =>
        run.all_propositions =
            Flatten([i \in 1..(IF run.pc = "extracting" THEN run.i - 1
                               ELSE Len(run.phase1.sections)) |->
                        NumberedInReturnedOrder(i)])

\* two chunks of one section returned three or more propositions, and
\* another section returned propositions too
C26_ChunkedSectionBesideAnother ==
    /\ run.pc = "synthesizing"
    /\ \E i, k \in 1..Len(run.phase1.sections) :
          /\ i # k
          /\ NumChunks(run.words[i]) >= 2
          /\ Len(run.engine_props[i]) >= 3
          /\ Len(run.engine_props[k]) >= 2
-----------------------------------------------------------------------------
(* The generation calls of one run of run_phase_2 *)

FailedRun == run.pc \in {"raised", "phase_error"}

\* C27: no call is made twice, and once a call failed or returned data that
\* does not validate the run is over: no further call is made, the sections
\* and chunks left stay unprocessed, nothing is returned, and the error the
\* pipeline raises names phase 2 and carries the failure of the call.
C27_FailedCallAbortsPhase ==
    /\ [](run.pc # "idle" =>
            \A a, b \in 1..Len(run.call_log) : a # b => run.call_log[a] # run.call_log[b])
    /\ [](FailedRun =>
            /\ run.outstanding = 0
            /\ run.cause \in {"LLMAPIError", "ValidationError"}
            /\ run.pc = "phase_error" =>
                  run.error = [class |-> "PhaseError", phase |-> "2",
                               original_error |-> run.cause])
    /\ [][(run.pc # "idle" /\ FailedRun) =>
             /\ run'.pc \in {"raised", "phase_error"}
             /\ run'.call_log = run.call_log
             /\ run'.i = run.i /\ run'.chunk_idx = run.chunk_idx]_vars

\* an extraction call failed after propositions of an earlier section had
\* been gathered and with sections still to come
C27_FailedWithSectionsLeft ==
    /\ run.pc = "phase_error"
    /\ run.call_log[Len(run.call_log)].kind = "extraction"
    /\ run.all_propositions # <<>>
    /\ run.i < Len(run.phase1.sections)

\* the extraction calls of a run that meets no failure, in the order of the
\* section list and within a section in chunk order
AllExtractionCalls ==
    Flatten([i \in 1..Len(run.phase1.sections) |->
                [c \in 1..NumChunks(run.words[i]) |->
                    [kind |-> "extraction", i |-> i, chunk_idx |-> c - 1]]])

\* C28: at most one call of a run is outstanding; the calls made are the
\* extraction calls in section order and chunk order, then synthesis calls in
\* section order, and a synthesis call is made only when every extraction
\* call has been made and has returned.
C28_CallsOneAtATimeInOrder ==
    run.pc # "idle" =>
        LET log == run.call_log
            all == AllExtractionCalls
        IN  /\ run.outstanding <= 1
            /\ \E m \in 0..Len(log) :
                  /\ m <= Len(all)
                  /\ SubSeq(log, 1, m) = SubSeq(all, 1, m)
                  /\ \A a \in m + 1..Len(log) : log[a].kind = "synthesis"
                  /\ \A a, b \in m + 1..Len(log) : a < b => log[a].i < log[b].i
                  /\ m < Len(log) => m = Len(all)
            /\ (run.outstanding = 1 /\ log[Len(log)].kind = "synthesis") =>
                  run.pc = "synthesizing"

\* a run returned after the two chunks of a section and two synthesis calls
C28_ChunksThenTwoSyntheses ==
    /\ run.pc = "returned"
    /\ \E a \in 1..Len(run.call_log) : run.call_log[a].chunk_idx = 1
    /\ Cardinality({a \in 1..Len(run.call_log) : run.call_log[a].kind = "synthesis"}) >= 2
-----------------------------------------------------------------------------
(* Chunking and targets: the extraction loop of run_phase_2 over one section *)
(* (llm_client.py lines 220-304), the section given by its number of words;  *)
(* a chunk is the slice words[start_idx:end_idx].                            *)

Max2(a, b) == IF a >= b THEN a ELSE b
Min2(a, b) == IF a <= b THEN a ELSE b

\* lines 236-239: start_idx, end_idx and chunk_word_count of chunk chunk_idx
ChunkBounds(num_words, chunk_idx) ==
    [start_idx |-> chunk_idx * CHUNK_SIZE,
     end_idx |-> Min2((chunk_idx + 1) * CHUNK_SIZE, num_words)]

\* lines 241 and 303: max(3, int(word_count / 150))
MinProps(word_count) == Max2(3, word_count \div 150)

\* the upper target mutated: the floor of 5 is left out
MaxPropsUnfloored(word_count) == word_count \div 100

\* lines 242 and 304: max(5, int(word_count / 100))
MaxProps(word_count) == Max2(5, word_count \div 100)

\* the sections explored have up to MaxChunkMultiple * CHUNK_SIZE words and
\* two more
MaxChunkMultiple == 3

SectionWordCounts ==
    {80} \cup {w \in {k * CHUNK_SIZE + d : k \in 0..MaxChunkMultiple, d \in {-1, 0, 1, 2}} :
                  w >= 0}

\* the numbers of propositions the engine may return in one call
ReturnedCounts == {0, 4, 31}

\* one pass of the loop of lines 235-299, or the single call of lines
\* 300-358: the targets are computed, the call is made and returns
\* `returned` propositions that validate
SectionCall(returned) ==
    /\ run.pc = "chunking"
    /\ LET chunked == run.section_word_count > CHUNK_SIZE
           bounds == IF chunked THEN ChunkBounds(run.section_word_count, run.chunk_idx)
                     ELSE [start_idx |-> 0, end_idx |-> run.section_word_count]
           word_count == bounds.end_idx - bounds.start_idx
           call == [start_idx |-> bounds.start_idx, end_idx |-> bounds.end_idx,
                    min_props |-> MinProps(word_count), max_props |-> MaxProps(word_count),
                    returned |-> returned]
           last == IF chunked THEN run.chunk_idx + 1 >= NumChunks(run.section_word_count)
                   ELSE TRUE
       IN  run' = [run EXCEPT !.calls = Append(@, call),
                              !.section_props = @ + returned,
                              !.chunk_idx = @ + 1,
                              !.pc = IF last THEN "section_done" ELSE "chunking"]
    /\ UNCHANGED <<db, lastOp, lastSaved, job, progress_tracker, reader, savers>>

InitChunk ==
    /\ db = EmptyDb
    /\ lastOp = NoOp
    /\ lastSaved = [c \in ChapterIds |-> NoAnalysis]
    /\ run \in [pc : {"chunking"}, section_word_count : SectionWordCounts,
                chunk_idx : {0}, calls : {<<>>}, section_props : {0}]
    /\ job = NoJobs
    /\ progress_tracker = NoProgress
    /\ reader = ReaderIdle
    /\ savers = NoSavers

NextChunk == \E returned \in ReturnedCounts : SectionCall(returned)

SpecChunk == InitChunk /\ [][NextChunk]_vars

RECURSIVE SumReturned(_)
\* the propositions gathered by a list of calls
SumReturned(calls) ==
    IF calls = <<>> THEN 0 ELSE Head(calls).returned + SumReturned(Tail(calls))

\* the least number of chunks of at most CHUNK_SIZE words that hold n words
CeilOfChunks(n) == CHOOSE k \in 0..n : k * CHUNK_SIZE >= n /\ (k - 1) * CHUNK_SIZE < n

\* C29: a section of at most 3000 words is sent whole in one call; a longer
\* one is cut into ceil(n/3000) chunks, none empty and none longer than 3000
\* words, that follow each other without gap or overlap from the first word
\* to the last, one call per chunk.
C29_ChunksCoverSection ==
    run.pc \in {"chunking", "section_done"} =>
        LET n == run.section_word_count
            calls == run.calls
        IN  /\ \A c \in 1..Len(calls) :
                  /\ calls[c].start_idx = IF c = 1 THEN 0 ELSE calls[c - 1].end_idx
                  /\ calls[c].end_idx - calls[c].start_idx <= CHUNK_SIZE
                  /\ n > 0 => calls[c].end_idx > calls[c].start_idx
            /\ run.pc = "section_done" =>
                  /\ calls[Len(calls)].end_idx = n
                  /\ n <= CHUNK_SIZE => Len(calls) = 1
                  /\ n > CHUNK_SIZE => Len(calls) = CeilOfChunks(n)

\* a section of one word more than two full chunks went out in three calls
C29_ThreeChunksLastOfOneWord ==
    /\ run.pc = "section_done"
    /\ run.section_word_count = 2 * CHUNK_SIZE + 1
    /\ Len(run.calls) = 3
    /\ run.calls[3].end_idx - run.calls[3].start_idx = 1

\* C30: the targets of a call for w words are max(3, floor(w/150)) and
\* max(5, floor(w/100)), the lower never above the upper, 3 and 5 for 80
\* words; whatever number of propositions the call returned, inside the
\* targets or not, is taken and the loop goes on.
C30_TargetsFromWordCount ==
    run.pc \in {"chunking", "section_done"} =>
        /\ \A c \in 1..Len(run.calls) :
              LET call == run.calls[c]
                  w == call.end_idx - call.start_idx
              IN  /\ call.min_props = (IF w \div 150 > 3 THEN w \div 150 ELSE 3)
                  /\ call.max_props = (IF w \div 100 > 5 THEN w \div 100 ELSE 5)
                  /\ call.min_props <= call.max_props
                  /\ w = 80 => call.min_props = 3 /\ call.max_props = 5
        /\ run.section_props = SumReturned(run.calls)
        /\ run.chunk_idx = Len(run.calls)

\* a section went through although one chunk returned fewer propositions
\* than its lower target and another more than its upper target
C30_OutsideTargetsTaken ==
    /\ run.pc = "section_done"
    /\ \E a, b \in 1..Len(run.calls) :
          /\ run.calls[a].returned < run.calls[a].min_props
          /\ run.calls[b].returned > run.calls[b].max_props
-----------------------------------------------------------------------------
(* Synthesis calls per section *)

\* the synthesis calls made for the section at position i
SynthesisCallsOf(i) ==
    {a \in 1..Len(run.call_log) :
        run.call_log[a].kind = "synthesis" /\ run.call_log[a].i = i}

\* a proposition of the run carries the unit_id of the section at position i
HasPropositions(i) ==
    \E k \in 1..Len(run.all_propositions) :
        run.all_propositions[k].unit_id = run.phase1.sections[i].unit_id

\* C31: a run that returns has made one synthesis call for every section
\* some proposition is attributed to and none for the other sections, which
\* give no takeaway; if no section has a proposition the takeaway list is
\* empty.
C31_OneSynthesisCallPerSection ==
    /\ run.pc = "synthesizing" =>
          \A i \in 1..Len(run.phase1.sections) :
              Cardinality(SynthesisCallsOf(i)) <= (IF HasPropositions(i) THEN 1 ELSE 0)
    /\ run.pc = "returned" =>
          /\ \A i \in 1..Len(run.phase1.sections) :
                /\ Cardinality(SynthesisCallsOf(i)) = (IF HasPropositions(i) THEN 1 ELSE 0)
                /\ ~HasPropositions(i) => run.engine_takeaways[i] = <<>>
          /\ (\A i \in 1..Len(run.phase1.sections) : ~HasPropositions(i)) =>
                run.all_takeaways = <<>>

\* a run returned takeaways although one of its sections had no proposition
\* while another had some
C31_ReturnedWithEmptySection ==
    /\ run.pc = "returned"
    /\ run.all_takeaways # <<>>
    /\ \E i, k \in 1..Len(run.phase1.sections) :
          /\ ~HasPropositions(i) /\ SynthesisCallsOf(i) = {}
          /\ HasPropositions(k) /\ SynthesisCallsOf(k) # {}
-----------------------------------------------------------------------------
(* The propositions a takeaway refers to *)

\* the proposition_ids of the propositions attributed to the section at
\* position i, which are the ones listed in the prompt of its synthesis call
PropositionIdsGivenTo(i) ==
    {run.all_propositions[k].proposition_id :
        k \in {n \in 1..Len(run.all_propositions) :
                  run.all_propositions[n].unit_id = run.phase1.sections[i].unit_id}}

\* C32: every takeaway the synthesis call of a section returned refers, in
\* its proposition_ids, only to propositions given to that call.
C32_TakeawaysReferToOwnSection ==
    run.pc \in {"synthesizing", "returned"} =>
        \A i \in 1..Len(run.phase1.sections) :
            \A t \in 1..Len(run.engine_takeaways[i]) :
                SeqToSet(run.engine_takeaways[i][t].proposition_ids)
                    \subseteq PropositionIdsGivenTo(i)
-----------------------------------------------------------------------------
(* The chapter_id of the items of an analysis *)

\* every item of the list carries chapter_id
AllOfChapter(items, chapter_id) ==
    \A k \in 1..Len(items) : items[k].chapter_id = chapter_id

\* the two lists differ at most in the chapter_id of their items
SameButChapterId(got, engine) ==
    /\ Len(got) = Len(engine)
    /\ \A k \in 1..Len(got) :
          [got[k] EXCEPT !.chapter_id = <<>>] = [engine[k] EXCEPT !.chapter_id = <<>>]

\* C33: once phase 2 of a job has succeeded, every proposition and every
\* takeaway of the job, and of the analysis assembled and saved from them,
\* carries the chapter_id of the job; the step that corrects them leaves all
\* other fields as run_phase_2 returned them.
C33_ChapterIdCorrected ==
    /\ [](\A j \in JobIds :
            /\ "phase-2" \in SeqToSet(job[j].succeeded) =>
                  /\ AllOfChapter(job[j].propositions, job[j].chapter_id)
                  /\ AllOfChapter(job[j].key_takeaways, job[j].chapter_id)
            /\ job[j].chapter # NoChapter =>
                  /\ job[j].chapter.chapter_id = job[j].chapter_id
                  /\ AllOfChapter(job[j].chapter.phase2.propositions, job[j].chapter_id)
                  /\ AllOfChapter(job[j].chapter.phase2.key_takeaways, job[j].chapter_id)
                  /\ SameButChapterId(job[j].chapter.phase2.propositions, job[j].propositions)
                  /\ SameButChapterId(job[j].chapter.phase2.key_takeaways,
                                      job[j].key_takeaways))
    /\ [][\A j \in JobIds :
            (job[j].pc = "phase-2" /\ job'[j].pc = "validation") =>
                \E script \in JobPhase2Scripts :
                    LET out == UniformPhase2(job[j].chapter_id, job[j].phase1,
                                             script[1], script[2], script[3])
                    IN  /\ out.ok
                        /\ SameButChapterId(job'[j].propositions, out.propositions)
                        /\ SameButChapterId(job'[j].key_takeaways, out.key_takeaways)]_vars

\* an analysis was saved whose propositions and takeaways the engine had
\* returned under another chapter_id
C33_SavedAfterCorrection ==
    \E j \in JobIds :
        /\ job[j].pc = "finished" /\ job[j].saves > 0
        /\ job[j].propositions # <<>> /\ job[j].key_takeaways # <<>>
        /\ job[j].chapter_id # ExampleChapterId
        /\ \A r \in Rows(db, "propositions") \cup Rows(db, "key_takeaways") :
              r.chapter_id # ExampleChapterId
        /\ Rows(db, "key_takeaways") # {}
-----------------------------------------------------------------------------
(* The unit_id of an extracted proposition *)

\* C34: after extraction every proposition obtained from the calls for a
\* section carries the unit_id of that section, the one its renumbered
\* proposition_id is built from.
C34_UnitIdIsTheSections ==
    run.pc \in {"extracting", "synthesizing", "returned"} =>
        /\ \A k \in 1..Len(run.all_propositions) :
              IsPropositionIdOf(run.all_propositions[k].proposition_id, run.chapter_id,
                                run.all_propositions[k].unit_id)
        /\ \A i \in 1..Len(run.phase1.sections) :
              \A k \in 1..Len(run.engine_props[i]) :
                  i < run.i \/ run.pc # "extracting" =>
                      \E n \in 1..Len(run.all_propositions) :
                          /\ run.all_propositions[n].proposition_id
                                = NumberedInReturnedOrder(i)[k].proposition_id
                          /\ run.all_propositions[n].unit_id = run.phase1.sections[i].unit_id
-----------------------------------------------------------------------------
(* Completed implies persisted *)

HasCompletedEvent(j) ==
    \E k \in 1..Len(progress_tracker[j]) :
        progress_tracker[j][k].status = "completed" \/ progress_tracker[j][k].phase = "completed"

\* C35: a job's log holds a completed event only after the job's Save
\* committed and returned True; on the step of that commit Load of the
\* chapter returns an analysis with the job's chapter_id and as many
\* propositions as the analysis saved; a job whose Save returned False never
\* gets a completed event.
C35_CompletedImpliesPersisted ==
    /\ [](\A j \in JobIds :
            /\ HasCompletedEvent(j) =>
                  /\ job[j].saves = 1
                  /\ "storage" \in SeqToSet(job[j].succeeded)
                  /\ job[j].error = "none"
            /\ job[j].error = "StorageError" => ~HasCompletedEvent(j))
    /\ [][\A j \in JobIds :
            (job[j].pc = "storage" /\ job'[j].pc \notin {"storage", "raised"}) =>
                LET loaded == Load(db', job[j].chapter_id)
                IN  /\ loaded # NotFound
                    /\ loaded.chapter_id = job[j].chapter.chapter_id
                    /\ Len(loaded.phase2.propositions)
                          = Len(job[j].chapter.phase2.propositions)]_vars

\* one job ended with its completed event and its chapter in the store, the
\* other with an error after its Save had returned False
C35_CompletedBesideFailedSave ==
    \E j, k \in JobIds :
        /\ job[j].pc = "finished" /\ HasCompletedEvent(j)
        /\ Load(db, job[j].chapter_id) # NotFound
        /\ job[k].pc = "finished" /\ job[k].error = "StorageError"
        /\ job[k].chapter_id # job[j].chapter_id
-----------------------------------------------------------------------------
(* The exceptions that leave digest_chapter_graff *)

LastStage(j) == job[j].stages[Len(job[j].stages)]

\* C36: the exception that ends a run is a PhaseError with phase 1 if the
\* structure pass failed, a PhaseError with phase 2 if extraction or
\* synthesis failed, a ValidationError if assembly failed and a StorageError
\* if Save failed; it is the error of the stage the run had entered last and
\* stays what it is.
C36_ErrorNamesFailedStage ==
    /\ [](\A j \in JobIds :
            job[j].error # "none" =>
                /\ job[j].stages # <<>>
                /\ job[j].error \in {"PhaseError", "ValidationError", "StorageError"}
                /\ LastStage(j) = "phase-1" =>
                      /\ job[j].error = "PhaseError" /\ job[j].error_phase = "1"
                      /\ job[j].phase_failure = "structure"
                /\ LastStage(j) = "phase-2" =>
                      /\ job[j].error = "PhaseError" /\ job[j].error_phase = "2"
                      /\ job[j].phase_failure \in {"extraction", "synthesis"}
                /\ LastStage(j) = "validation" => job[j].error = "ValidationError"
                /\ LastStage(j) = "storage" =>
                      /\ job[j].error = "StorageError" /\ job[j].error_phase = "none"
                /\ LastStage(j) # "completed")
    /\ [][\A j \in JobIds :
            job[j].error # "none" =>
                /\ job'[j].error = job[j].error
                /\ job'[j].error_phase = job[j].error_phase
                /\ job'[j].stages = job[j].stages]_vars

\* runs have ended with a PhaseError of an earlier stage and with a
\* StorageError
C36_PhaseAndStorageErrors ==
    \E j, k \in JobIds :
        /\ job[j].pc = "finished" /\ job[j].error = "PhaseError"
        /\ job[k].pc = "finished" /\ job[k].error = "StorageError"
-----------------------------------------------------------------------------
(* The closing message of a stream *)

\* C38: a stream that ended has sent one closing message, of status timeout,
\* whether the reader gave up waiting or delivered the terminal event of the
\* job; a stream that has not ended has sent none; nothing is sent after
\* the closing message; and no log holds an event of status timeout.
C38_OneClosingMessageNotLogged ==
    /\ [](reader.pc # "idle" =>
            /\ reader.pc = "closed" =>
                  /\ Len(reader.final) = 1
                  /\ reader.final[1].status = "timeout"
                  /\ reader.closed_by \in {"timeout", "terminal"}
            /\ reader.pc # "closed" => reader.final = <<>>)
    /\ [](\A j \in JobIds : \A i \in 1..Len(progress_tracker[j]) :
            progress_tracker[j][i].status # "timeout")
    /\ [][reader.pc = "closed" => reader' = reader]_vars

\* a reader delivered the terminal event of the job and then the closing
\* message
C38_ClosedAfterTerminalEvent ==
    /\ reader.pc = "closed"
    /\ reader.closed_by = "terminal"
    /\ reader.delivered # <<>>
    /\ reader.delivered[Len(reader.delivered)].status \in TerminalStatuses
    /\ reader.final = <<StreamClosed>>
-----------------------------------------------------------------------------
(* Several readers of one job (app.py lines 44-70): every request runs a   *)
(* generator of its own, with its own last_index and timeout_count, over   *)
(* the one log of the job.                                                  *)

\* the requests for the progress of a job
ReaderIds == {"reader1", "reader2"}

\* the log of a job ends with its terminal event
LogFinished(log) == log # <<>> /\ log[Len(log)].status \in TerminalStatuses

\* the event loop resumes a generator at the point where it was suspended
Resumed(rd, tracker) ==
    CASE rd.pc = "poll" -> Polled(rd, tracker)
      [] rd.pc = "yield" -> Yielded(rd)
      [] rd.pc = "advance" -> Advanced(rd, tracker)
      [] rd.pc = "closing" -> Closed(rd)

\* GET /chapters/progress/{job_id} of request r; attached_late records
\* whether the job's log was finished when the request arrived
ReaderOpen(r, job_id) ==
    /\ reader[r].pc = "idle"
    /\ reader' = [reader EXCEPT ![r] =
          Opened(job_id) @@
          [attached_late |-> LogFinished(progress_tracker[job_id])]]
    /\ UNCHANGED <<db, lastOp, lastSaved, run, job, progress_tracker, savers>>

\* one step of the generator of request r
ReaderResume(r) ==
    /\ reader[r].pc \in {"poll", "yield", "advance", "closing"}
    /\ reader' = [reader EXCEPT ![r] = Resumed(reader[r], progress_tracker)]
    /\ UNCHANGED <<db, lastOp, lastSaved, run, job, progress_tracker, savers>>

InitReaders ==
    /\ db = EmptyDb
    /\ lastOp = NoOp
    /\ lastSaved = [c \in ChapterIds |-> NoAnalysis]
    /\ run = Phase2Idle
    /\ job = NoJobs
    /\ progress_tracker = NoProgress
    /\ reader = [r \in ReaderIds |-> ReaderIdle]
    /\ savers = NoSavers

\* the job of the readers is one whose Phase 1 call raises: its log is the
\* first event, the Phase 1 notification and the terminal error event
NextReaders ==
    \/ \E j \in StreamedJobs, chapter_id \in ChapterIds : SubmitJob(j, chapter_id)
    \/ \E j \in StreamedJobs : StructureRaises(j)
    \/ \E j \in StreamedJobs : FinishError(j)
    \/ \E r \in ReaderIds, job_id \in StreamedJobs : ReaderOpen(r, job_id)
    \/ \E r \in ReaderIds : ReaderResume(r)

SpecReaders == InitReaders /\ [][NextReaders]_vars

\* a reader that attached after the job finished delivers the whole log
\* through the terminal event and never sleeps
LateReaderDeliversAll ==
    \A r \in ReaderIds :
        (reader[r].pc # "idle" /\ reader[r].attached_late) =>
            /\ reader[r].timeout_count = 0
            /\ IsPrefix(reader[r].delivered, progress_tracker[reader[r].job_id])
            /\ reader[r].pc = "closed" =>
                  /\ reader[r].closed_by = "terminal"
                  /\ reader[r].delivered = progress_tracker[reader[r].job_id]

\* C37: every reader delivers the log of its job from the first event on, in
\* the order of the log; a reader that attached after the job finished
\* delivers the whole log through the terminal event without a sleep; and
\* two readers of one job that both received the terminal event delivered
\* the same sequence.
C37_ReadersDeliverTheLog ==
    /\ LateReaderDeliversAll
    /\ \A r \in ReaderIds :
          reader[r].pc # "idle" =>
              IsPrefix(reader[r].delivered, progress_tracker[reader[r].job_id])
    /\ \A r1, r2 \in ReaderIds :
          (/\ reader[r1].pc # "idle" /\ reader[r2].pc # "idle"
           /\ reader[r1].job_id = reader[r2].job_id
           /\ reader[r1].closed_by = "terminal" /\ reader[r2].closed_by = "terminal")
          => reader[r1].delivered = reader[r2].delivered

\* two readers of one job both received its terminal event after different
\* sequences of events
TwoReadersDiffer ==
    \E r1, r2 \in ReaderIds :
        /\ reader[r1].pc = "closed" /\ reader[r2].pc = "closed"
        /\ reader[r1].closed_by = "terminal" /\ reader[r2].closed_by = "terminal"
        /\ reader[r1].delivered # reader[r2].delivered

\* a step of one reader leaves the other reader, the logs and the jobs as
\* they are
ReadersIndependent ==
    [][\A r \in ReaderIds :
          reader'[r] # reader[r] =>
              /\ \A other \in ReaderIds \ {r} : reader'[other] = reader[other]
              /\ progress_tracker' = progress_tracker
              /\ job' = job]_vars
-----------------------------------------------------------------------------
(* Propositions of one bloom level *)

\* the elements of a sequence
Range(s) == {s[i] : i \in 1..Len(s)}

\* the propositions Load returns for a chapter, none for a chapter not stored
LoadedPropositions(d, chapter_id) ==
    IF Load(d, chapter_id) = NotFound THEN <<>>
    ELSE Load(d, chapter_id).phase2.propositions

\* C39: the propositions returned for a chapter and a bloom level are the
\* propositions Load returns for the chapter that have this level, each once
\* and with the same fields and tags, none for a chapter not stored; and in
\* every state the results for the four levels are disjoint and together
\* the propositions of Load.
C39_ByBloomIsLoadFiltered ==
    /\ lastOp.kind = "by_bloom" =>
          LET loaded == LoadedPropositions(db, lastOp.chapter_id)
              ofLevel == {i \in 1..Len(loaded) : loaded[i].bloom_level = lastOp.bloom_level}
          IN  /\ Range(lastOp.result) = {loaded[i] : i \in ofLevel}
              /\ Len(lastOp.result) = Cardinality(ofLevel)
              /\ Load(db, lastOp.chapter_id) = NotFound => lastOp.result = <<>>
    /\ \A c \in ChapterIds :
          LET loaded == LoadedPropositions(db, c)
              by(b) == get_propositions_by_bloom(db, c, b)
          IN  /\ UNION {Range(by(b)) : b \in PropositionBloom} = Range(loaded)
              /\ \A b1, b2 \in PropositionBloom :
                    b1 # b2 => Range(by(b1)) \cap Range(by(b2)) = {}
              /\ \A b \in PropositionBloom :
                    Len(by(b)) = Cardinality({i \in 1..Len(loaded) : loaded[i].bloom_level = b})

\* the propositions of one level were asked of a chapter that holds this
\* level and another, while a second chapter is stored that holds it too
C39_OneLevelOfTwoAsked ==
    /\ lastOp.kind = "by_bloom"
    /\ lastOp.result # <<>>
    /\ Len(lastOp.result) < Len(LoadedPropositions(db, lastOp.chapter_id))
    /\ \E c \in ChapterIds \ {lastOp.chapter_id} :
          \E i \in 1..Len(LoadedPropositions(db, c)) :
              LoadedPropositions(db, c)[i].bloom_level = lastOp.bloom_level
=============================================================================
